---- MODULE Spec2Model ----
(***************************************************************************)
(* Model of the sharded account index (crates/fractal-shard), the write    *)
(* producer that feeds it (crates/ingest) and the query dispatcher built   *)
(* on it (crates/rpc).                                                     *)
(*                                                                         *)
(* Pubkeys are small integers; as_ref gives a pubkey its 32 bytes.         *)
(* Option<T> is a sequence of length 0 (None) or 1 (Some).                 *)
(* The index is modelled as built by default (no `distributed` feature, so *)
(* no Redis tier): `enable_redis` needs `&mut self` and is only reachable  *)
(* before the index is shared.                                             *)
(***************************************************************************)
EXTENDS Integers, Sequences, FiniteSets, TLC

VARIABLES
    shards,       \* ShardedIndex.shards: shard number -> map Pubkey -> Account
    owner_index,  \* ShardedIndex.owner_index: map owner -> Vec<Pubkey>
    inflight,     \* per thread: the insert that has written its shard and
                  \* not yet the owner index (None when the thread is idle)
    last_write,   \* history: per key, the account of the last shard write
                  \* (None after a remove, or when never written)
    ret,          \* the value returned by the call that was the last step
    api_key,      \* AppState.api_key: the configured secret, if any
    locks,        \* the locks of owner_index: its map shards and its buckets
    heap,         \* the Arc<Account> allocations, by address
    held,         \* per thread: the Arc a reader got from get, and what it saw
    redis,        \* ShardedIndex.redis: the client of the external tier, if any
    tier,         \* the external tier: reachable or not, and what it stores
    tasks,        \* the background writes spawned by insert and not yet run
    fetch,        \* per thread: the get that waits for the external tier
    chan,         \* the broadcast channel of AppState.txs
    rx            \* per subscriber: the receiver of handle_socket

lock_vars == <<locks>>
arc_vars == <<heap, held>>
tier_vars == <<redis, tier, tasks, fetch>>
feed_vars == <<chan, rx>>

vars == <<shards, owner_index, inflight, last_write, ret, api_key,
          locks, heap, held, redis, tier, tasks, fetch, chan, rx>>

---------------------------------------------------------------------------
(* Bounds of the model *)

\* number of account keys that are ever written or queried
NKeys == 2
\* number of threads calling into the index concurrently
NThreads == 2
\* balances range over 1..MaxLamports
MaxLamports == 2
\* number of clients that open a subscription
NSubscribers == 2
\* the longest run of equal bytes among the short inputs of the codec
MaxRun == 16
\* SHARD_BITS is 12 in the source (4096 shards); the model keeps the
\* mask-of-hash computation and bounds the number of bits
SHARD_BITS == 1
\* width of usize in bits (32 or 64 on the targets the source builds for)
USIZE_BITS == 8

---------------------------------------------------------------------------
(* Program constants *)

PUBKEY_BYTES == 32
SHARD_MASK == (2 ^ SHARD_BITS) - 1
\* "TokenkegQfeZyiNwAJbNbGKPFXCWuBvf9Ss623VQ5DA"
TOKEN_PROGRAM == 10

None == <<>>
Some(x) == <<x>>
Unwrap(o) == o[1]

Keys == 1..NKeys
Threads == 1..NThreads
Subscribers == 1..NSubscribers
\* the token program and one other program (the system program of the bench)
Owners == {TOKEN_PROGRAM, 11}
Mints == {20, 21}
Pubkeys == Keys \cup Owners \cup Mints

\* Pubkey::as_ref: the 32 bytes of a key (every byte is the key's number)
as_ref(pk) == [i \in 1..PUBKEY_BYTES |-> pk]

Account(o, l, d, e, r) ==
    [owner |-> o, lamports |-> l, data |-> d, executable |-> e, rent_epoch |-> r]

\* data blobs: a token layout for mint 20, the same with one trailing byte,
\* and a blob one byte too short to hold a mint
MintBlob == as_ref(20)
LongBlob == as_ref(20) \o <<7>>
ShortBlob == SubSeq(as_ref(20), 1, PUBKEY_BYTES - 1)

\* the accounts the producer writes: three token accounts and one account
\* of the other program that carries the same bytes as a token account
Accounts ==
    {Account(TOKEN_PROGRAM, MaxLamports, MintBlob, FALSE, 0),
     Account(TOKEN_PROGRAM, 1, LongBlob, FALSE, 1),
     Account(TOKEN_PROGRAM, 1, ShortBlob, FALSE, 1),
     Account(11, MaxLamports, MintBlob, TRUE, 2)}

---------------------------------------------------------------------------
(* fractal-shard: ShardedIndex *)

\* DefaultHasher over the whole key (SipHash in the source; here a fixed
\* arithmetic mix of the key, under which some keys share a shard and
\* others do not)
DefaultHasher(key) == (key * key + 1) % 65536

shard_index(key) == DefaultHasher(key) % (SHARD_MASK + 1)

ShardIds == 0..SHARD_MASK

EmptyMap == [k \in {} |-> None]

MapInsert(m, k, v) == [x \in (DOMAIN m) \cup {k} |-> IF x = k THEN v ELSE m[x]]

MapRemove(m, k) == [x \in (DOMAIN m) \ {k} |-> m[x]]

MapGet(m, k) == IF k \in DOMAIN m THEN Some(m[k]) ELSE None

Contains(s, x) == \E i \in 1..Len(s) : s[i] = x

\* a shard write that keeps the record already stored under the key
ShardWrite_KeepsFirst(sh, key, acc) ==
    LET idx == shard_index(key)
    IN  IF key \in DOMAIN sh[idx] THEN sh
        ELSE [sh EXCEPT ![idx] = MapInsert(sh[idx], key, acc)]

\* a shard write that selects the shard by the first byte of the key
ShardWrite_BySingleByte(sh, key, acc) ==
    LET idx == as_ref(key)[1] % (SHARD_MASK + 1)
    IN  [sh EXCEPT ![idx] = MapInsert(sh[idx], key, acc)]

\* insert, lines 67-70: the write of the primary shard
ShardWrite(sh, key, acc) ==
    LET idx == shard_index(key)
    IN  [sh EXCEPT ![idx] = MapInsert(sh[idx], key, acc)]

\* an owner-bucket update that pushes without looking for the key
OwnerWrite_AlwaysPush(oi, key, acc) ==
    LET vec == IF acc.owner \in DOMAIN oi THEN oi[acc.owner] ELSE <<>>
    IN  MapInsert(oi, acc.owner, Append(vec, key))

\* an owner-bucket update that only fills the bucket it creates
OwnerWrite_OnlyNewBucket(oi, key, acc) ==
    IF acc.owner \in DOMAIN oi THEN oi ELSE MapInsert(oi, acc.owner, <<key>>)

\* an owner-bucket update that also takes the key out of the other owners'
\* buckets
OwnerWrite_MovesKey(oi, key, acc) ==
    LET vec   == IF acc.owner \in DOMAIN oi THEN oi[acc.owner] ELSE <<>>
        moved == [o \in DOMAIN oi |-> SelectSeq(oi[o], LAMBDA k : k # key \/ o = acc.owner)]
    IN  MapInsert(moved, acc.owner, IF Contains(vec, key) THEN vec ELSE Append(vec, key))

\* insert, lines 73-82: entry(owner).or_insert_with(empty), then push unless
\* the vector already contains the key (one critical section)
OwnerWrite(oi, key, acc) ==
    LET vec == IF acc.owner \in DOMAIN oi THEN oi[acc.owner] ELSE <<>>
    IN  MapInsert(oi, acc.owner, IF Contains(vec, key) THEN vec ELSE Append(vec, key))

\* get, lines 107-112 (the Redis branch is compiled out)
get(sh, key) == MapGet(sh[shard_index(key)], key)

\* the keys of a set in ascending order (the order a shard is iterated in)
RECURSIVE SortedSeq(_)
SortedSeq(S) ==
    IF S = {} THEN <<>>
    ELSE LET m == CHOOSE x \in S : \A y \in S : x <= y
         IN  <<m>> \o SortedSeq(S \ {m})

\* get_program_accounts, lines 153-161: the scan of every shard
RECURSIVE ScanShards(_, _, _)
ScanShards(sh, i, program) ==
    IF i > SHARD_MASK THEN <<>>
    ELSE LET ks == SelectSeq(SortedSeq(DOMAIN sh[i]),
                             LAMBDA k : sh[i][k].owner = program)
         IN  [j \in 1..Len(ks) |-> <<ks[j], sh[i][ks[j]]>>]
             \o ScanShards(sh, i + 1, program)

\* a fast path that maps every key of the bucket, found or not
OwnerFastPath_NoResolve(sh, vec) ==
    [j \in 1..Len(vec) |-> <<vec[j], get(sh, vec[j])>>]

\* get_program_accounts, lines 144-150: the owner bucket, each key resolved
\* through get and dropped when get finds nothing
OwnerFastPath(sh, vec) ==
    LET found == SelectSeq(vec, LAMBDA pk : get(sh, pk) # None)
    IN  [j \in 1..Len(found) |-> <<found[j], Unwrap(get(sh, found[j]))>>]

get_program_accounts(sh, oi, program) ==
    IF program \in DOMAIN oi
    THEN OwnerFastPath(sh, oi[program])
    ELSE ScanShards(sh, 0, program)

\* Vec::truncate
Truncate(s, n) == IF n < Len(s) THEN SubSeq(s, 1, n) ELSE s

\* sort_unstable_by_key(Reverse(lamports)) as the standard library runs it
\* on a short slice (insertion sort, from the left): descending balances,
\* equal balances in the order of the input
RECURSIVE SortByLamportsDesc(_)
SortByLamportsDesc(s) ==
    IF s = <<>> THEN <<>>
    ELSE LET init == SortByLamportsDesc(SubSeq(s, 1, Len(s) - 1))
             x == s[Len(s)]
             n == Cardinality({i \in 1..Len(init) : init[i][2].lamports >= x[2].lamports})
         IN  SubSeq(init, 1, n) \o <<x>> \o SubSeq(init, n + 1, Len(init))

\* the filter of lines 181-184: the first 32 bytes of the data are the mint
HasMint(acc, mint) ==
    /\ Len(acc.data) >= PUBKEY_BYTES
    /\ SubSeq(acc.data, 1, PUBKEY_BYTES) = as_ref(mint)

\* get_largest_token_accounts, lines 166-191
get_largest_token_accounts(sh, oi, mint, limit) ==
    LET all_token_accounts == get_program_accounts(sh, oi, TOKEN_PROGRAM)
        filtered == SelectSeq(all_token_accounts, LAMBDA p : HasMint(p[2], mint))
    IN  Truncate(SortByLamportsDesc(filtered), limit)

\* a len that counts the first shard only
len_FirstShard(sh) == Cardinality(DOMAIN sh[0])

\* len, lines 194-196
len(sh) ==
    LET RECURSIVE Sum(_)
        Sum(i) == IF i > SHARD_MASK THEN 0 ELSE Cardinality(DOMAIN sh[i]) + Sum(i + 1)
    IN  Sum(0)

---------------------------------------------------------------------------
(* The index behind its API: whole calls, one after the other *)

NoRet == [op |-> "none"]

\* no lock is held (dash and bucket hold the write locks of owner_index,
\* reads the read locks); `spread` is whether the two owners fall
\* into different shards of the owner_index map (its hasher is seeded per map)
NoLocks(spread) == [spread |-> spread, dash |-> {}, bucket |-> {}, reads |-> {}]

\* the external tier before anything is written to it
EmptyTier == [store |-> EmptyMap]

\* the channel before anything is sent on it
EmptyChannel == [tail |-> 0, buf |-> <<>>, sent |-> <<>>]

\* everything but the locks, as ShardedIndex::default and main build it
InitButLocks ==
    /\ shards = [i \in ShardIds |-> EmptyMap]
    /\ owner_index = EmptyMap
    /\ inflight = [t \in Threads |-> None]
    /\ last_write = [k \in Keys |-> None]
    /\ ret = NoRet
    /\ api_key = None
    /\ heap = EmptyMap
    /\ held = [t \in Threads |-> None]
    /\ redis = None
    /\ tier = EmptyTier
    /\ tasks = {}
    /\ fetch = [t \in Threads |-> None]
    /\ chan = EmptyChannel
    /\ rx = [s \in Subscribers |-> None]

Init ==
    /\ InitButLocks
    /\ locks = NoLocks(TRUE)

\* insert(key, acc), lines 65-102
Insert(key, acc) ==
    /\ shards' = ShardWrite(shards, key, acc)
    /\ owner_index' = OwnerWrite(owner_index, key, acc)
    /\ last_write' = [last_write EXCEPT ![key] = Some(acc)]
    /\ ret' = [op |-> "insert", key |-> key, acc |-> acc,
               pushed |-> owner_index' # owner_index]
    /\ UNCHANGED <<inflight, api_key>>
    /\ UNCHANGED <<lock_vars, arc_vars, tier_vars, feed_vars>>

\* remove(key): the primary shard only, the owner buckets are left alone
Remove(key) ==
    /\ shards' = [shards EXCEPT ![shard_index(key)] = MapRemove(@, key)]
    /\ last_write' = [last_write EXCEPT ![key] = None]
    /\ ret' = [op |-> "remove", key |-> key]
    /\ UNCHANGED <<owner_index, inflight, api_key>>
    /\ UNCHANGED <<lock_vars, arc_vars, tier_vars, feed_vars>>

Get(key) ==
    /\ ret' = [op |-> "get", key |-> key, val |-> get(shards, key)]
    /\ UNCHANGED <<shards, owner_index, inflight, last_write, api_key>>
    /\ UNCHANGED <<lock_vars, arc_vars, tier_vars, feed_vars>>

GetProgramAccounts(program) ==
    /\ ret' = [op |-> "get_program_accounts", program |-> program,
               val |-> get_program_accounts(shards, owner_index, program)]
    /\ UNCHANGED <<shards, owner_index, inflight, last_write, api_key>>
    /\ UNCHANGED <<lock_vars, arc_vars, tier_vars, feed_vars>>

Next ==
    \/ \E key \in Keys, acc \in Accounts : Insert(key, acc)
    \/ \E key \in Keys : Remove(key)
    \/ \E key \in Keys : Get(key)
    \/ \E program \in Owners : GetProgramAccounts(program)

Spec == Init /\ [][Next]_vars

---------------------------------------------------------------------------
(* The index under concurrent inserts: an insert is two steps, the shard   *)
(* write (under the shard's lock) and the owner-bucket update (under the   *)
(* bucket's write lock); steps of different threads interleave freely.     *)

\* the accounts written concurrently: one per owner
ConcAccounts == {a \in Accounts : a.data = MintBlob}

\* insert, lines 67-70: thread t writes the primary shard
InsertShard(t, key, acc) ==
    /\ inflight[t] = None
    /\ shards' = ShardWrite(shards, key, acc)
    /\ inflight' = [inflight EXCEPT ![t] = Some([key |-> key, acc |-> acc])]
    /\ last_write' = [last_write EXCEPT ![key] = Some(acc)]
    /\ ret' = NoRet
    /\ UNCHANGED <<owner_index, api_key>>
    /\ UNCHANGED <<lock_vars, arc_vars, tier_vars, feed_vars>>

\* insert, lines 73-82: thread t updates the owner bucket and returns
InsertOwner(t) ==
    /\ inflight[t] # None
    /\ LET c == Unwrap(inflight[t])
       IN  /\ owner_index' = OwnerWrite(owner_index, c.key, c.acc)
           /\ ret' = [op |-> "insert", key |-> c.key, acc |-> c.acc,
                      pushed |-> owner_index' # owner_index]
    /\ inflight' = [inflight EXCEPT ![t] = None]
    /\ UNCHANGED <<shards, last_write, api_key>>
    /\ UNCHANGED <<lock_vars, arc_vars, tier_vars, feed_vars>>

NextConc ==
    \/ \E t \in Threads, key \in Keys, acc \in ConcAccounts : InsertShard(t, key, acc)
    \/ \E t \in Threads : InsertOwner(t)

SpecConc == Init /\ [][NextConc]_vars

---------------------------------------------------------------------------
(* Insert lock by lock: every thread makes one insert, in the steps in     *)
(* which it takes and gives back the locks of owner_index. The write of    *)
(* the primary shard takes the shard's lock inside DashMap::insert and     *)
(* gives it back before the call returns, so it is one step.               *)

\* the shard of the owner_index map that holds the owner's bucket
OwnerShard(l, owner) == IF l.spread THEN owner ELSE 0

At(t, stage) == inflight[t] # None /\ Unwrap(inflight[t]).at = stage

\* either way the map's hasher spreads the owners
InitLocks ==
    /\ InitButLocks
    /\ locks \in {NoLocks(spread) : spread \in BOOLEAN}

\* an insert whose first write is the push into the owner's bucket, the
\* shard not yet written
LockedShardWrite_BucketFirst(t, key, acc) ==
    /\ inflight[t] = None
    /\ owner_index' = OwnerWrite(owner_index, key, acc)
    /\ inflight' = [inflight EXCEPT ![t] = Some([key |-> key, acc |-> acc, at |-> "entry"])]
    /\ ret' = NoRet
    /\ UNCHANGED <<shards, last_write, api_key, locks, arc_vars, tier_vars, feed_vars>>

\* lines 67-70: shard.insert(key, arc_acc)
LockedShardWrite(t, key, acc) ==
    /\ inflight[t] = None
    /\ shards' = ShardWrite(shards, key, acc)
    /\ inflight' = [inflight EXCEPT ![t] = Some([key |-> key, acc |-> acc, at |-> "entry"])]
    /\ last_write' = [last_write EXCEPT ![key] = Some(acc)]
    /\ ret' = NoRet
    /\ UNCHANGED <<owner_index, api_key, locks, arc_vars, tier_vars, feed_vars>>

\* lines 73-76: owner_index.entry(acc.owner) waits for the write lock of the
\* owner's map shard and keeps it in owner_entry; or_insert_with makes the
\* bucket when there is none
OwnerEntry(t) ==
    /\ At(t, "entry")
    /\ LET c == Unwrap(inflight[t])
           s == OwnerShard(locks, c.acc.owner)
       IN  /\ \A l \in locks.dash : l[1] # s
           /\ locks' = [locks EXCEPT !.dash = @ \cup {<<s, t>>}]
           /\ owner_index' = IF c.acc.owner \in DOMAIN owner_index THEN owner_index
                             ELSE MapInsert(owner_index, c.acc.owner, <<>>)
           /\ inflight' = [inflight EXCEPT ![t] = Some([c EXCEPT !.at = "write"])]
    /\ ret' = NoRet
    /\ UNCHANGED <<shards, last_write, api_key, arc_vars, tier_vars, feed_vars>>

\* line 78: owner_entry.write() waits for the bucket's write lock
BucketWrite(t) ==
    /\ At(t, "write")
    /\ LET c == Unwrap(inflight[t])
       IN  /\ \A l \in locks.bucket : l[1] # c.acc.owner
           /\ locks' = [locks EXCEPT !.bucket = @ \cup {<<c.acc.owner, t>>}]
           /\ inflight' = [inflight EXCEPT ![t] = Some([c EXCEPT !.at = "push"])]
    /\ ret' = NoRet
    /\ UNCHANGED <<shards, owner_index, last_write, api_key, arc_vars, tier_vars, feed_vars>>

\* lines 79-82: push unless the bucket contains the key; the block ends and
\* gives the bucket's lock back
BucketPush(t) ==
    /\ At(t, "push")
    /\ LET c == Unwrap(inflight[t])
       IN  /\ owner_index' = OwnerWrite(owner_index, c.key, c.acc)
           /\ locks' = [locks EXCEPT !.bucket = @ \ {<<c.acc.owner, t>>}]
           /\ inflight' = [inflight EXCEPT ![t] = Some([c EXCEPT !.at = "return"])]
    /\ ret' = NoRet
    /\ UNCHANGED <<shards, last_write, api_key, arc_vars, tier_vars, feed_vars>>

\* an insert that returns without giving back the lock of the map shard
InsertReturn_KeepsLock(t) ==
    /\ At(t, "return")
    /\ LET c == Unwrap(inflight[t])
       IN  /\ inflight' = [inflight EXCEPT ![t] = Some([c EXCEPT !.at = "done"])]
           /\ ret' = [op |-> "insert", key |-> c.key, acc |-> c.acc]
    /\ UNCHANGED <<shards, owner_index, last_write, api_key, locks, arc_vars,
                   tier_vars, feed_vars>>

\* line 102: insert returns; owner_entry goes out of scope and gives the
\* lock of the map shard back
InsertReturn(t) ==
    /\ At(t, "return")
    /\ LET c == Unwrap(inflight[t])
       IN  /\ locks' = [locks EXCEPT !.dash = @ \ {<<OwnerShard(locks, c.acc.owner), t>>}]
           /\ inflight' = [inflight EXCEPT ![t] = Some([c EXCEPT !.at = "done"])]
           /\ ret' = [op |-> "insert", key |-> c.key, acc |-> c.acc]
    /\ UNCHANGED <<shards, owner_index, last_write, api_key, arc_vars, tier_vars, feed_vars>>

\* the next step of a thread that is inside insert
InsertStep(t) ==
    \/ OwnerEntry(t)
    \/ BucketWrite(t)
    \/ BucketPush(t)
    \/ InsertReturn(t)

NextLocks ==
    \/ \E t \in Threads, key \in Keys, acc \in ConcAccounts : LockedShardWrite(t, key, acc)
    \/ \E t \in Threads : InsertStep(t)

SpecLocks == InitLocks /\ [][NextLocks]_vars

---------------------------------------------------------------------------
(* The owner fast path lock by lock, beside inserts: get_program_accounts  *)
(* (lib.rs 144-150) and get_token_accounts_by_owner (main.rs 474-483) run  *)
(* the same steps.  locks.reads holds the read locks, <<kind, id, t>>:     *)
(* "dash" for a shard of the owner_index map, "bucket" for an owner's      *)
(* Vec, "primary" for a shard of the primary index.                        *)

FastPaths == {"get_program_accounts", "get_token_accounts_by_owner"}

ReadLocked(kind, id) == \E l \in locks.reads : l[1] = kind /\ l[2] = id

\* owner_index.get(owner): waits for the read lock of the owner's map
\* shard; the Ref it returns keeps the lock, a None gives it back and the
\* call ends with the scan of the shards (lib.rs 153-161), which takes no
\* lock of owner_index, or with the empty Vec (main.rs 480-482)
FastEntry(t, path, owner) ==
    /\ inflight[t] = None
    /\ LET s == OwnerShard(locks, owner)
       IN  /\ \A l \in locks.dash : l[1] # s
           /\ IF owner \in DOMAIN owner_index
              THEN /\ locks' = [locks EXCEPT !.reads = @ \cup {<<"dash", s, t>>}]
                   /\ inflight' = [inflight EXCEPT ![t] =
                          Some([path |-> path, owner |-> owner, at |-> "read",
                                i |-> 1, out |-> <<>>])]
                   /\ ret' = NoRet
              ELSE /\ ret' = [op |-> path, owner |-> owner,
                              out |-> IF path = "get_program_accounts"
                                      THEN get_program_accounts(shards, owner_index, owner)
                                      ELSE <<>>]
                   /\ UNCHANGED <<locks, inflight>>
    /\ UNCHANGED <<shards, owner_index, last_write, api_key, arc_vars, tier_vars, feed_vars>>

\* owner_vec.read(): waits for the bucket's read lock
FastBucketRead(t) ==
    /\ At(t, "read")
    /\ LET c == Unwrap(inflight[t])
       IN  /\ \A l \in locks.bucket : l[1] # c.owner
           /\ locks' = [locks EXCEPT !.reads = @ \cup {<<"bucket", c.owner, t>>}]
           /\ inflight' = [inflight EXCEPT ![t] = Some([c EXCEPT !.at = "iter"])]
    /\ ret' = NoRet
    /\ UNCHANGED <<shards, owner_index, last_write, api_key, arc_vars, tier_vars, feed_vars>>

\* the closure of filter_map calls self.get(pk): DashMap::get takes the read
\* lock of the key's primary shard
FastGetLock(t) ==
    /\ At(t, "iter")
    /\ LET c == Unwrap(inflight[t])
       IN  /\ c.i <= Len(owner_index[c.owner])
           /\ locks' = [locks EXCEPT !.reads =
                  @ \cup {<<"primary", shard_index(owner_index[c.owner][c.i]), t>>}]
           /\ inflight' = [inflight EXCEPT ![t] = Some([c EXCEPT !.at = "get"])]
    /\ ret' = NoRet
    /\ UNCHANGED <<shards, owner_index, last_write, api_key, arc_vars, tier_vars, feed_vars>>

\* self.get(pk) clones the Arc and gives the shard's lock back; the pair is
\* kept when the key resolves
FastGetDone(t) ==
    /\ At(t, "get")
    /\ LET c  == Unwrap(inflight[t])
           pk == owner_index[c.owner][c.i]
       IN  /\ locks' = [locks EXCEPT !.reads = @ \ {<<"primary", shard_index(pk), t>>}]
           /\ inflight' = [inflight EXCEPT ![t] = Some([c EXCEPT
                  !.at = "iter", !.i = @ + 1,
                  !.out = IF get(shards, pk) = None THEN @
                          ELSE Append(@, <<pk, Unwrap(get(shards, pk))>>)])]
    /\ ret' = NoRet
    /\ UNCHANGED <<shards, owner_index, last_write, api_key, arc_vars, tier_vars, feed_vars>>

\* collect() ends; the guard of the bucket and the Ref go out of scope
FastReturn(t) ==
    /\ At(t, "iter")
    /\ LET c == Unwrap(inflight[t])
       IN  /\ c.i > Len(owner_index[c.owner])
           /\ locks' = [locks EXCEPT !.reads = {l \in @ : l[3] # t}]
           /\ ret' = [op |-> c.path, owner |-> c.owner, out |-> c.out]
    /\ inflight' = [inflight EXCEPT ![t] = None]
    /\ UNCHANGED <<shards, owner_index, last_write, api_key, arc_vars, tier_vars, feed_vars>>

\* the writes of an insert wait for the readers of the lock they take
PathInsert(t, key, acc) ==
    /\ ~ReadLocked("primary", shard_index(key))
    /\ LockedShardWrite(t, key, acc)

PathInsertStep(t) ==
    /\ At(t, "entry") => ~ReadLocked("dash", OwnerShard(locks, Unwrap(inflight[t]).acc.owner))
    /\ At(t, "write") => ~ReadLocked("bucket", Unwrap(inflight[t]).acc.owner)
    /\ InsertStep(t)

\* an insert that has returned leaves the thread free for its next call
PathDone(t) ==
    /\ At(t, "done")
    /\ inflight' = [inflight EXCEPT ![t] = None]
    /\ ret' = NoRet
    /\ UNCHANGED <<shards, owner_index, last_write, api_key, locks, arc_vars,
                   tier_vars, feed_vars>>

NextPaths ==
    \/ \E t \in Threads, key \in Keys, acc \in ConcAccounts : PathInsert(t, key, acc)
    \/ \E t \in Threads : PathInsertStep(t)
    \/ \E t \in Threads : PathDone(t)
    \/ \E t \in Threads, path \in FastPaths, owner \in Owners : FastEntry(t, path, owner)
    \/ \E t \in Threads : FastBucketRead(t)
    \/ \E t \in Threads : FastGetLock(t)
    \/ \E t \in Threads : FastGetDone(t)
    \/ \E t \in Threads : FastReturn(t)

SpecPaths == InitLocks /\ [][NextPaths]_vars

---------------------------------------------------------------------------
(* The index with its records behind Arc: in this specification a shard    *)
(* maps a key to the address of an allocation, `heap` maps the addresses   *)
(* in use to the records, and a reader keeps the Arc that get gave it.     *)

\* addresses: enough for every key's record, every reader's Arc and the
\* allocation an insert makes before it replaces the old one
Addresses == 1..(NKeys + NThreads + 1)

\* the allocations that are still referenced (the others are freed when
\* their last Arc is dropped)
Live(h, sh, hd) ==
    [a \in {x \in DOMAIN h : \E i \in ShardIds : \E k \in DOMAIN sh[i] : sh[i][k] = x}
           \cup {Unwrap(hd[t]).ptr : t \in {u \in Threads : hd[u] # None}} |-> h[a]]

\* an insert that writes the new record into the allocation the key has
NewArc_InPlace(h, sh, key, acc) ==
    IF get(sh, key) # None
    THEN [ptr |-> Unwrap(get(sh, key)), heap |-> [h EXCEPT ![Unwrap(get(sh, key))] = acc]]
    ELSE LET ptr == CHOOSE a \in Addresses \ DOMAIN h : TRUE
         IN  [ptr |-> ptr, heap |-> (ptr :> acc) @@ h]

\* line 69: Arc::new(acc.clone()), a fresh allocation that holds the record
NewArc(h, sh, key, acc) ==
    LET ptr == CHOOSE a \in Addresses \ DOMAIN h : TRUE
    IN  [ptr |-> ptr, heap |-> (ptr :> acc) @@ h]

\* insert(key, acc), lines 65-82: the shard entry is replaced by the new Arc
\* and the old allocation loses the shard's reference
ArcInsert(key, acc) ==
    /\ LET n == NewArc(heap, shards, key, acc)
       IN  /\ shards' = ShardWrite(shards, key, n.ptr)
           /\ heap' = Live(n.heap, shards', held)
    /\ owner_index' = OwnerWrite(owner_index, key, acc)
    /\ last_write' = [last_write EXCEPT ![key] = Some(acc)]
    /\ ret' = NoRet
    /\ UNCHANGED <<inflight, api_key, held, lock_vars, tier_vars, feed_vars>>

\* remove(key): the shard entry and its reference go
ArcRemove(key) ==
    /\ shards' = [shards EXCEPT ![shard_index(key)] = MapRemove(@, key)]
    /\ heap' = Live(heap, shards', held)
    /\ last_write' = [last_write EXCEPT ![key] = None]
    /\ ret' = NoRet
    /\ UNCHANGED <<owner_index, inflight, api_key, held, lock_vars, tier_vars, feed_vars>>

\* get(key), lines 107-112, by reader t: a clone of the Arc in the shard
ArcGet(t, key) ==
    /\ held[t] = None
    /\ LET r == get(shards, key)
       IN  /\ held' = IF r = None THEN held
                      ELSE [held EXCEPT ![t] = Some([key |-> key, ptr |-> Unwrap(r),
                                                    seen |-> heap[Unwrap(r)]])]
           /\ ret' = NoRet
    /\ UNCHANGED <<shards, owner_index, inflight, last_write, api_key, heap,
                   lock_vars, tier_vars, feed_vars>>

\* reader t reads the record through its Arc
ArcRead(t) ==
    /\ held[t] # None
    /\ ret' = [op |-> "read", reader |-> t, val |-> heap[Unwrap(held[t]).ptr]]
    /\ UNCHANGED <<shards, owner_index, inflight, last_write, api_key, heap, held,
                   lock_vars, tier_vars, feed_vars>>

\* reader t drops its Arc
ArcDrop(t) ==
    /\ held[t] # None
    /\ held' = [held EXCEPT ![t] = None]
    /\ heap' = Live(heap, shards, held')
    /\ ret' = NoRet
    /\ UNCHANGED <<shards, owner_index, inflight, last_write, api_key,
                   lock_vars, tier_vars, feed_vars>>

\* the records written in this specification: two records of one owner that
\* differ in lamports, data and rent epoch
ArcAccounts == {a \in Accounts : a.owner = TOKEN_PROGRAM /\ a.data # ShortBlob}

NextArc ==
    \/ \E key \in Keys, acc \in ArcAccounts : ArcInsert(key, acc)
    \/ \E key \in Keys : ArcRemove(key)
    \/ \E t \in Threads, key \in Keys : ArcGet(t, key)
    \/ \E t \in Threads : ArcRead(t)
    \/ \E t \in Threads : ArcDrop(t)

SpecArc == Init /\ [][NextArc]_vars

---------------------------------------------------------------------------
(* crates/fractal-rle: the codec (an LZ4 frame around LZ4 blocks) *)

\* a number below 2^16 in four bytes, little endian
LE32(n) == <<n % 256, (n \div 256) % 256, 0, 0>>

\* the checksum of the frame format (xxHash32 in the library; here a fixed
\* arithmetic mix of the bytes, in 16 bits)
RECURSIVE xxh32(_)
xxh32(bytes) ==
    IF bytes = <<>> THEN 7
    ELSE IF Len(bytes) = 1 THEN bytes[1] + 1
    ELSE LET half == Len(bytes) \div 2
         IN  (xxh32(SubSeq(bytes, 1, half)) * 31
              + xxh32(SubSeq(bytes, half + 1, Len(bytes))) * 17 + Len(bytes)) % 65536

\* the frame header: magic number, FLG (version 1, linked blocks, content
\* checksum), BD (blocks of up to 64 KB), and the checksum byte of FLG and BD
LZ4_MAGIC == <<4, 34, 77, 24>>
LZ4_FLG == 68
LZ4_BD == 64
FrameHeader == LZ4_MAGIC \o <<LZ4_FLG, LZ4_BD, (xxh32(<<LZ4_FLG, LZ4_BD>>) \div 256) % 256>>
EndMark == <<0, 0, 0, 0>>

\* block format limits: a match has at least 4 bytes, starts at least 12
\* bytes before the end of the block and ends at least 5 bytes before it
MINMATCH == 4
MFLIMIT == 12
LASTLITERALS == 5

\* the bytes that extend a length nibble of 15: 255 for every full 255, then
\* the rest
RECURSIVE LengthBytes(_)
LengthBytes(n) == IF n >= 255 THEN <<255>> \o LengthBytes(n - 255) ELSE <<n>>

Nibble(n) == IF n >= 15 THEN 15 ELSE n

\* one sequence of a block: token, literals, and (unless it is the last
\* sequence, matchlen = 0) the match offset and length
Sequence(literals, offset, matchlen) ==
    LET ll == Len(literals)
        ml == IF matchlen = 0 THEN 0 ELSE matchlen - MINMATCH
    IN  <<Nibble(ll) * 16 + Nibble(ml)>>
        \o (IF ll >= 15 THEN LengthBytes(ll - 15) ELSE <<>>)
        \o literals
        \o (IF matchlen = 0 THEN <<>>
            ELSE <<offset % 256, offset \div 256>>
                 \o (IF ml >= 15 THEN LengthBytes(ml - 15) ELSE <<>>))

\* the length of the match of position i against the earlier position j, not
\* reaching into the last LASTLITERALS bytes
MatchLength(data, j, i) ==
    LET limit == Len(data) - LASTLITERALS - i + 1
        same == {l \in 0..limit : \A x \in 0..(l - 1) : data[j + x] = data[i + x]}
    IN  CHOOSE l \in same : \A m \in same : m <= l

\* the compressor of one block, from position i with the literals pending
\* since `anchor`: it takes the nearest earlier match of at least MINMATCH
\* bytes whenever there is one
RECURSIVE lz4_block(_, _, _)
lz4_block(data, i, anchor) ==
    IF i > Len(data) - MFLIMIT
    THEN Sequence(SubSeq(data, anchor, Len(data)), 0, 0)
    ELSE LET cands == {j \in 1..(i - 1) : MatchLength(data, j, i) >= MINMATCH}
         IN  IF cands = {} THEN lz4_block(data, i + 1, anchor)
             ELSE LET j == CHOOSE c \in cands : \A d \in cands : d <= c
                      ml == MatchLength(data, j, i)
                  IN  Sequence(SubSeq(data, anchor, i - 1), i - j, ml)
                      \o lz4_block(data, i + ml, i + ml)

\* a block in the frame: its size and its bytes, compressed when that is
\* shorter and stored as they are (top bit of the size set) otherwise
FrameBlock(data) ==
    LET c == IF Len(data) > MFLIMIT THEN lz4_block(data, 1, 1) ELSE data
    IN  IF Len(c) < Len(data)
        THEN LE32(Len(c)) \o c
        ELSE [LE32(Len(data)) EXCEPT ![4] = 128] \o data

\* compress, lines 4-13: header, one block unless the input is empty, end
\* mark, content checksum
compress(data) ==
    FrameHeader
    \o (IF data = <<>> THEN <<>> ELSE FrameBlock(data))
    \o EndMark
    \o LE32(xxh32(data))

\* a length nibble and the bytes that extend it, read at position p:
\* [ok, len, next]
RECURSIVE ReadLength(_, _, _)
ReadLength(src, p, acc) ==
    IF acc < 15 THEN [ok |-> TRUE, len |-> acc, next |-> p]
    ELSE IF p > Len(src) THEN [ok |-> FALSE, len |-> 0, next |-> p]
    ELSE IF src[p] = 255
    THEN LET r == ReadLength(src, p + 1, 15)
         IN  [r EXCEPT !.len = @ + 255]
    ELSE [ok |-> TRUE, len |-> acc + src[p], next |-> p + 1]

\* a copy of a match that takes only the bytes already there
CopyMatch_NoOverlap(out, off, ml) ==
    out \o SubSeq(out, Len(out) - off + 1,
                  IF ml > off THEN Len(out) ELSE Len(out) - off + ml)

\* the copy of a match: ml bytes from `off` bytes back, byte by byte, so that
\* a match longer than its offset repeats the last `off` bytes
CopyMatch(out, off, ml) ==
    [i \in 1..(Len(out) + ml) |->
        IF i <= Len(out) THEN out[i]
        ELSE out[Len(out) - off + 1 + ((i - Len(out) - 1) % off)]]

\* the decoder of one block, from position p with `out` decoded so far (the
\* output of the frame up to here: blocks are linked): [ok, out]
RECURSIVE lz4_decode_block(_, _, _)
lz4_decode_block(src, p, out) ==
    IF p > Len(src) THEN [ok |-> FALSE, out |-> out]
    ELSE LET token == src[p]
             ll == ReadLength(src, p + 1, token \div 16)
             q == ll.next + ll.len
         IN  IF ~ll.ok \/ q > Len(src) + 1 THEN [ok |-> FALSE, out |-> out]
             ELSE LET lits == out \o SubSeq(src, ll.next, q - 1)
                  IN  IF q = Len(src) + 1 THEN [ok |-> TRUE, out |-> lits]
                      ELSE IF q + 1 > Len(src) THEN [ok |-> FALSE, out |-> out]
                      ELSE LET off == src[q] + 256 * src[q + 1]
                               ml == ReadLength(src, q + 2, token % 16)
                           IN  IF off = 0 \/ off > Len(lits) \/ ~ml.ok
                               THEN [ok |-> FALSE, out |-> out]
                               ELSE lz4_decode_block(src, ml.next,
                                        CopyMatch(lits, off, ml.len + MINMATCH))

\* the header of a frame is one that the decoder accepts (frames with other
\* options than compress sets are not among the payloads of this model)
ValidHeader(h) ==
    /\ SubSeq(h, 1, 4) = LZ4_MAGIC
    /\ h[5] = LZ4_FLG
    /\ h[6] = LZ4_BD
    /\ h[7] = (xxh32(<<h[5], h[6]>>) \div 256) % 256

\* the blocks of a frame from position p: [ok, out]. A frame that stops
\* short is no error to the reader: Decoder::read answers Ok(0) when its
\* source is at its end, and what was decoded so far is the output.
RECURSIVE DecodeBlocks(_, _, _)
DecodeBlocks(src, p, out) ==
    IF p + 3 > Len(src) THEN [ok |-> TRUE, out |-> out]
    ELSE LET raw == src[p + 3] >= 128
             size == src[p] + 256 * src[p + 1]
             big == src[p + 2] # 0 \/ src[p + 3] % 128 # 0
             avail == Len(src) - (p + 3)
         IN  IF SubSeq(src, p, p + 3) = EndMark
             THEN IF p + 7 > Len(src) THEN [ok |-> TRUE, out |-> out]
                  ELSE [ok |-> SubSeq(src, p + 4, p + 7) = LE32(xxh32(out)), out |-> out]
             ELSE IF big THEN [ok |-> FALSE, out |-> out]
             ELSE IF raw
             THEN IF avail < size
                  THEN [ok |-> TRUE, out |-> out \o SubSeq(src, p + 4, Len(src))]
                  ELSE DecodeBlocks(src, p + 4 + size,
                                    out \o SubSeq(src, p + 4, p + 3 + size))
             ELSE IF avail < size THEN [ok |-> TRUE, out |-> out]
             ELSE LET b == lz4_decode_block(SubSeq(src, p + 4, p + 3 + size), 1, out)
                  IN  IF b.ok THEN DecodeBlocks(src, p + 4 + size, b.out) ELSE b

\* lz4::Decoder read to its end by io::copy: [ok, out]
lz4_decode(data) ==
    IF Len(data) < Len(FrameHeader) THEN [ok |-> TRUE, out |-> <<>>]
    ELSE IF ~ValidHeader(data) THEN [ok |-> FALSE, out |-> <<>>]
    ELSE DecodeBlocks(data, Len(FrameHeader) + 1, <<>>)

\* decompress, lines 15-20: the decoded bytes, or a panic of its caller
\* (`expect("lz4 copy")`) when the decoder reports an error
decompress(data) ==
    LET d == lz4_decode(data)
    IN  IF d.ok THEN [outcome |-> "Ok", body |-> d.out] ELSE [outcome |-> "panic"]

\* bincode of a u64: eight bytes, little endian (the model's numbers are
\* below 2^16)
U64(n) == <<n % 256, (n \div 256) % 256, 0, 0, 0, 0, 0, 0>>

\* bincode::serialize of an Account: lamports, data with its length, owner,
\* executable, rent_epoch
bincode_serialize(acc) ==
    U64(acc.lamports) \o U64(Len(acc.data)) \o acc.data \o as_ref(acc.owner)
    \o <<IF acc.executable THEN 1 ELSE 0>> \o U64(acc.rent_epoch)

\* a u64 read at position p, None when the bytes stop short (or the number
\* is beyond the model's 2^16)
ReadU64(bytes, p) ==
    IF p + 7 > Len(bytes) \/ \E i \in 2..7 : bytes[p + i] # 0 THEN None
    ELSE Some(bytes[p] + 256 * bytes[p + 1])

\* bincode::deserialize::<Account>: Some(account), None for Err; bytes after
\* the account are allowed
bincode_deserialize(bytes) ==
    LET lamports == ReadU64(bytes, 1)
        n == ReadU64(bytes, 9)
    IN  IF lamports = None \/ n = None THEN None
        ELSE LET p == 17 + Unwrap(n)
                 rent_epoch == ReadU64(bytes, p + PUBKEY_BYTES + 1)
             IN  IF p + PUBKEY_BYTES > Len(bytes) \/ rent_epoch = None
                    \/ bytes[p + PUBKEY_BYTES] \notin {0, 1}
                    \/ \A pk \in Pubkeys : as_ref(pk) # SubSeq(bytes, p, p + PUBKEY_BYTES - 1)
                 THEN None
                 ELSE Some(Account(
                        CHOOSE pk \in Pubkeys : as_ref(pk) = SubSeq(bytes, p, p + PUBKEY_BYTES - 1),
                        Unwrap(lamports), SubSeq(bytes, 17, p - 1),
                        bytes[p + PUBKEY_BYTES] = 1, Unwrap(rent_epoch)))

---------------------------------------------------------------------------
(* Text forms on the wire *)

\* a pubkey in text: its number in two base-58 digits
to_string(pk) == <<pk \div 58, pk % 58>>

\* Result<T, E> of a parse: Some(value) for Ok, None for Err
Pubkey_try_from(str) ==
    IF Len(str) = 2 /\ \A i \in 1..2 : str[i] \in 0..57
    THEN Some(str[1] * 58 + str[2])
    ELSE None

\* a text that is no pubkey (a character outside the alphabet)
MalformedKey == <<1, 58>>

\* base64: characters are the numbers 0..63, and 64 for the padding '='
RECURSIVE base64_encode(_)
base64_encode(bytes) ==
    IF bytes = <<>> THEN <<>>
    ELSE IF Len(bytes) = 1
    THEN <<bytes[1] \div 4, (bytes[1] % 4) * 16, 64, 64>>
    ELSE IF Len(bytes) = 2
    THEN <<bytes[1] \div 4, (bytes[1] % 4) * 16 + bytes[2] \div 16,
           (bytes[2] % 16) * 4, 64>>
    ELSE <<bytes[1] \div 4, (bytes[1] % 4) * 16 + bytes[2] \div 16,
           (bytes[2] % 16) * 4 + bytes[3] \div 64, bytes[3] % 64>>
         \o base64_encode(SubSeq(bytes, 4, Len(bytes)))

\* one group of four characters: Some(bytes), or None when it is invalid;
\* padding is accepted in the last group only
Base64Group(g, last) ==
    IF \A i \in 1..4 : g[i] \in 0..63
    THEN Some(<<g[1] * 4 + g[2] \div 16, (g[2] % 16) * 16 + g[3] \div 4,
                (g[3] % 4) * 64 + g[4]>>)
    ELSE IF last /\ g[1] \in 0..63 /\ g[2] \in 0..63 /\ g[3] \in 0..63 /\ g[4] = 64
              /\ g[3] % 4 = 0
    THEN Some(<<g[1] * 4 + g[2] \div 16, (g[2] % 16) * 16 + g[3] \div 4>>)
    ELSE IF last /\ g[1] \in 0..63 /\ g[2] \in 0..63 /\ g[3] = 64 /\ g[4] = 64
              /\ g[2] % 16 = 0
    THEN Some(<<g[1] * 4 + g[2] \div 16>>)
    ELSE None

\* base64::decode: Some(bytes) for Ok, None for Err
RECURSIVE base64_decode(_)
base64_decode(str) ==
    IF str = <<>> THEN Some(<<>>)
    ELSE IF Len(str) < 4 THEN None
    ELSE LET g == Base64Group(SubSeq(str, 1, 4), Len(str) = 4)
             rest == base64_decode(SubSeq(str, 5, Len(str)))
         IN  IF g = None \/ rest = None THEN None
             ELSE Some(Unwrap(g) \o Unwrap(rest))

\* a text that is not base64 (its length is not a multiple of four)
MalformedBase64 == <<1, 2, 3>>

\* Result::unwrap_or_default
unwrap_or_default(r) == IF r = None THEN <<>> ELSE Unwrap(r)

---------------------------------------------------------------------------
(* crates/rpc: the query dispatcher *)

USIZE_MAX == (2 ^ USIZE_BITS) - 1

Ok(body) == [outcome |-> "Ok", body |-> body]
Err(status, msg) == [outcome |-> "Err", status |-> status, msg |-> msg]
\* the handler's task panicked: the client gets no response
Panic == [outcome |-> "panic"]

\* check_api_key, lines 230-239
check_api_key(required, headers) ==
    IF required # None
    THEN IF headers # None /\ Unwrap(headers) = Unwrap(required)
         THEN Ok(<<>>)
         ELSE Err(401, "missing or invalid API key")
    ELSE Ok(<<>>)

\* the AccountResp built from a (key, account) pair, lines 307-314
AccountResp(k, acc) ==
    [pubkey |-> to_string(k), lamports |-> acc.lamports,
     data |-> base64_encode(acc.data), owner |-> to_string(acc.owner),
     executable |-> acc.executable, rent_epoch |-> acc.rent_epoch]

ToResp(accounts) == [i \in 1..Len(accounts) |-> AccountResp(accounts[i][1], accounts[i][2])]

Memcmp(offset, bytes) == [kind |-> "memcmp", offset |-> offset, bytes |-> bytes]
DataSize(size) == [kind |-> "dataSize", size |-> size]

\* one filter on one account, lines 341-349: "true", "false" or "panic".
\* `overflow_checks` is the build's choice for usize addition: panic on
\* overflow (debug), or wrap around (release).
FilterOne(f, acc, overflow_checks) ==
    IF f.kind = "memcmp"
    THEN LET decoded == unwrap_or_default(base64_decode(f.bytes))
             sum == f.offset + Len(decoded)
             end == sum % (USIZE_MAX + 1)
         IN  IF sum > USIZE_MAX /\ overflow_checks THEN "panic"
             ELSE IF end > Len(acc.data) THEN "false"
             ELSE IF f.offset > end THEN "panic"  \* slice index starts after its end
             ELSE IF SubSeq(acc.data, f.offset + 1, end) = decoded THEN "true"
             ELSE "false"
    ELSE IF Len(acc.data) = f.size THEN "true" ELSE "false"

\* filters.iter().all(..) on one account: stops at the first filter that
\* fails (or panics)
RECURSIVE FilterAll(_, _, _)
FilterAll(filters, acc, overflow_checks) ==
    IF filters = <<>> THEN "true"
    ELSE LET r == FilterOne(filters[1], acc, overflow_checks)
         IN  IF r = "true" THEN FilterAll(Tail(filters), acc, overflow_checks)
             ELSE r

\* apply_filters, lines 333-353: the accounts that pass every filter, in
\* order; Panic when the evaluation of an account panics
apply_filters(accounts, filters, overflow_checks) ==
    IF \E i \in 1..Len(accounts) :
            FilterAll(filters, accounts[i][2], overflow_checks) = "panic"
    THEN Panic
    ELSE Ok(SelectSeq(accounts,
                      LAMBDA p : FilterAll(filters, p[2], overflow_checks) = "true"))

\* a pagination that cuts to the limit before it drops the offset
Paginate_LimitFirst(accounts, offset, limit) ==
    LET cut == IF limit = None THEN accounts ELSE Truncate(accounts, Unwrap(limit))
    IN  IF offset = None THEN cut
        ELSE IF Unwrap(offset) < Len(cut)
        THEN SubSeq(cut, Unwrap(offset) + 1, Len(cut))
        ELSE <<>>

\* pagination, lines 292-302 and 494-504
Paginate(accounts, offset, limit) ==
    LET dropped == IF offset = None THEN accounts
                   ELSE IF Unwrap(offset) < Len(accounts)
                   THEN SubSeq(accounts, Unwrap(offset) + 1, Len(accounts))
                   ELSE <<>>
    IN  IF limit = None THEN dropped ELSE Truncate(dropped, Unwrap(limit))

\* POST /getProgramAccounts, lines 270-328
get_program_accounts_handler(sh, oi, required, headers, req, overflow_checks) ==
    LET auth == check_api_key(required, headers)
        program == Pubkey_try_from(req.program)
    IN  IF auth.outcome # "Ok" THEN auth
        ELSE IF program = None THEN Err(400, "invalid program pubkey")
        ELSE LET accounts == get_program_accounts(sh, oi, Unwrap(program))
                 filtered == IF req.filters = None THEN Ok(accounts)
                             ELSE apply_filters(accounts, Unwrap(req.filters),
                                                overflow_checks)
             IN  IF filtered.outcome = "panic" THEN Panic
                 ELSE Ok(ToResp(Paginate(filtered.body, req.offset, req.limit)))

\* a loop that leaves out the keys it does not find
RECURSIVE MultipleAccountsLoop_SkipsAbsent(_, _)
MultipleAccountsLoop_SkipsAbsent(sh, pubkeys) ==
    IF pubkeys = <<>> THEN Ok(<<>>)
    ELSE LET pk == Pubkey_try_from(pubkeys[1])
         IN  IF pk = None THEN Err(400, "invalid pubkey")
             ELSE LET acc == get(sh, Unwrap(pk))
                      rest == MultipleAccountsLoop_SkipsAbsent(sh, Tail(pubkeys))
                  IN  IF rest.outcome # "Ok" THEN rest
                      ELSE IF acc = None THEN rest
                      ELSE Ok(<<Some(AccountResp(Unwrap(pk), Unwrap(acc)))>> \o rest.body)

\* POST /getMultipleAccounts, lines 365-401
RECURSIVE MultipleAccountsLoop(_, _)
MultipleAccountsLoop(sh, pubkeys) ==
    IF pubkeys = <<>> THEN Ok(<<>>)
    ELSE LET pk == Pubkey_try_from(pubkeys[1])
         IN  IF pk = None THEN Err(400, "invalid pubkey")
             ELSE LET acc == get(sh, Unwrap(pk))
                      item == IF acc # None
                              THEN Some(AccountResp(Unwrap(pk), Unwrap(acc)))
                              ELSE None
                      rest == MultipleAccountsLoop(sh, Tail(pubkeys))
                  IN  IF rest.outcome # "Ok" THEN rest
                      ELSE Ok(<<item>> \o rest.body)

get_multiple_accounts(sh, required, headers, req) ==
    LET auth == check_api_key(required, headers)
    IN  IF auth.outcome # "Ok" THEN auth
        ELSE MultipleAccountsLoop(sh, req.pubkeys)

\* POST /getTokenAccountsByOwner, lines 461-528
get_token_accounts_by_owner(sh, oi, required, headers, req) ==
    LET auth == check_api_key(required, headers)
        owner_pk == Pubkey_try_from(req.owner)
    IN  IF auth.outcome # "Ok" THEN auth
        ELSE IF owner_pk = None THEN Err(400, "invalid owner pubkey")
        ELSE LET accounts == IF Unwrap(owner_pk) \in DOMAIN oi
                             THEN OwnerFastPath(sh, oi[Unwrap(owner_pk)])
                             ELSE <<>>
                 mint_pk == IF req.mint = None THEN None
                            ELSE Pubkey_try_from(Unwrap(req.mint))
             IN  IF req.mint # None /\ mint_pk = None THEN Err(400, "invalid mint")
                 ELSE LET retained ==
                              IF req.mint = None THEN accounts
                              ELSE SelectSeq(accounts,
                                             LAMBDA p : HasMint(p[2], Unwrap(mint_pk)))
                      IN  Ok(ToResp(Paginate(retained, req.offset, req.limit)))

\* POST /getLargestTokenAccounts, lines 540-578
get_largest_token_accounts_handler(sh, oi, required, headers, req) ==
    LET auth == check_api_key(required, headers)
        mint_pk == Pubkey_try_from(req.mint)
        limit == IF req.limit = None THEN 10 ELSE Unwrap(req.limit)
    IN  IF auth.outcome # "Ok" THEN auth
        ELSE IF mint_pk = None THEN Err(400, "invalid mint")
        ELSE Ok(ToResp(get_largest_token_accounts(sh, oi, Unwrap(mint_pk), limit)))

---------------------------------------------------------------------------
(* crates/ingest: the write producer *)

\* Pubkey::try_from(&[u8]): the slice must be 32 bytes long
Pubkey_from_slice(bytes) ==
    IF Len(bytes) = PUBKEY_BYTES
    THEN Some(CHOOSE pk \in Pubkeys : as_ref(pk) = bytes)
    ELSE None

\* an update_account that takes every version for V0_0_3
update_account_AnyVersion(account) ==
    LET key == Pubkey_from_slice(account.pubkey)
        owner == Pubkey_from_slice(account.owner)
    IN  IF key = None
        THEN [result |-> Err(0, "bad pubkey"), insert |-> None]
        ELSE IF owner = None
        THEN [result |-> Err(0, "bad owner"), insert |-> None]
        ELSE [result |-> Ok(<<>>),
              insert |-> Some(<<Unwrap(key),
                                Account(Unwrap(owner), account.lamports,
                                        account.data, account.executable,
                                        account.rent_epoch)>>)]

\* update_account, lines 36-72: the result, and the (key, account) to insert
\* when the update is accepted
update_account(account) ==
    IF account.version # "V0_0_3"
    THEN [result |-> Err(0, "Unsupported ReplicaAccountInfo version"), insert |-> None]
    ELSE LET key == Pubkey_from_slice(account.pubkey)
             owner == Pubkey_from_slice(account.owner)
         IN  IF key = None
             THEN [result |-> Err(0, "bad pubkey"), insert |-> None]
             ELSE IF owner = None
             THEN [result |-> Err(0, "bad owner"), insert |-> None]
             ELSE [result |-> Ok(<<>>),
                   insert |-> Some(<<Unwrap(key),
                                     Account(Unwrap(owner), account.lamports,
                                             account.data, account.executable,
                                             account.rent_epoch)>>)]

---------------------------------------------------------------------------
(* The dispatcher over an index fed by the producer: one call at a time,   *)
(* a call starts when the previous one has returned.                       *)

\* the token account that holds exactly a mint
TokenMintAccounts == {a \in ConcAccounts : a.owner = TOKEN_PROGRAM}

ReplicaAccountInfo(version, k, a) ==
    [version |-> version, pubkey |-> as_ref(k), owner |-> as_ref(a.owner),
     lamports |-> a.lamports, data |-> a.data, executable |-> a.executable,
     rent_epoch |-> a.rent_epoch]

\* what the producer is called with: every account under every key, and
\* an update of another version, one with a short key, one with a short owner
Updates ==
    {ReplicaAccountInfo("V0_0_3", k, a) : k \in Keys, a \in Accounts}
    \cup {[ReplicaAccountInfo("V0_0_3", 1, a) EXCEPT !.version = "V0_0_2"] :
            a \in TokenMintAccounts}
    \cup {[ReplicaAccountInfo("V0_0_3", 1, a) EXCEPT !.pubkey = <<1>>] :
            a \in TokenMintAccounts}
    \cup {[ReplicaAccountInfo("V0_0_3", 1, a) EXCEPT !.owner = <<>>] :
            a \in TokenMintAccounts}

OptUsize(S) == {None} \cup {Some(n) : n \in S}

\* page windows: none, inside the result, at its end, at the largest usize
Offsets == OptUsize({1, NKeys, USIZE_MAX})
Limits == OptUsize({0, NKeys - 1})

ProgramTexts == {to_string(o) : o \in Owners}

\* memcmp and dataSize filters: on the mint, on the trailing byte (out of
\* range for the shorter blobs), at the largest offset, with undecodable
\* bytes, and on the size
Filters ==
    {Memcmp(0, base64_encode(MintBlob)),
     Memcmp(PUBKEY_BYTES, base64_encode(<<7>>)),
     Memcmp(USIZE_MAX, base64_encode(<<7>>)),
     Memcmp(1, MalformedBase64),
     DataSize(PUBKEY_BYTES)}

\* no filter, one filter, and every filter followed by a filter that the
\* token layout passes
FilterLists ==
    {<<>>} \cup {<<f>> : f \in Filters}
    \cup {<<f, g>> : f \in Filters,
                     g \in {Memcmp(0, base64_encode(MintBlob)), DataSize(PUBKEY_BYTES)}}

GetProgramAccountsReq(program, limit, offset, filters) ==
    [program |-> program, limit |-> limit, offset |-> offset, filters |-> filters]

\* requests with filters and no pagination, with pagination and no filter,
\* with one filter and pagination, and with a malformed program
ProgramAccountsReqs ==
    {GetProgramAccountsReq(to_string(TOKEN_PROGRAM), None, None, Some(fs)) :
            fs \in FilterLists}
    \cup {GetProgramAccountsReq(p, None, None, None) : p \in ProgramTexts}
    \cup {GetProgramAccountsReq(to_string(TOKEN_PROGRAM), l, o, None) :
            l \in Limits, o \in Offsets}
    \cup {GetProgramAccountsReq(to_string(TOKEN_PROGRAM), Some(1), Some(1), Some(<<f>>)) :
            f \in Filters}
    \cup {GetProgramAccountsReq(MalformedKey, None, None, None)}

KeyTexts == {to_string(k) : k \in Keys}

\* the empty list, one key or malformed text, a key before a malformed
\* text, and lists of three keys around the first key (one more key than
\* the producer writes, so that a key is absent whatever was written)
MultipleAccountsReqs ==
    {[pubkeys |-> ks] :
        ks \in {<<>>} \cup {<<a>> : a \in KeyTexts \cup {MalformedKey}}
               \cup {<<a, MalformedKey>> : a \in KeyTexts}
               \cup {<<a, to_string(1), c>> :
                        a, c \in KeyTexts \cup {to_string(NKeys + 1)}}}

TokenAccountsByOwnerReqs ==
    {[owner |-> p, mint |-> None, limit |-> None, offset |-> None] : p \in ProgramTexts}
    \cup {[owner |-> to_string(TOKEN_PROGRAM), mint |-> None, limit |-> l, offset |-> o] :
        l \in Limits, o \in Offsets}
    \cup {[owner |-> to_string(TOKEN_PROGRAM), mint |-> Some(m), limit |-> l,
           offset |-> None] :
        m \in {to_string(x) : x \in Mints} \cup {MalformedKey}, l \in OptUsize({1})}
    \cup {[owner |-> MalformedKey, mint |-> None, limit |-> None, offset |-> None]}

LargestTokenAccountsReqs ==
    {[mint |-> m, limit |-> l] :
        m \in {to_string(20), MalformedKey}, l \in OptUsize(0..2)}

\* the header the client sends: none (no secret is configured)
Headers == {None}

UpdateAccount(account) ==
    /\ ret = NoRet
    /\ LET r == update_account(account)
       IN  /\ ret' = [op |-> "update_account", req |-> account] @@ r.result
           /\ IF r.insert = None
              THEN UNCHANGED <<shards, owner_index, last_write>>
              ELSE LET key == Unwrap(r.insert)[1]
                       acc == Unwrap(r.insert)[2]
                   IN  /\ shards' = ShardWrite(shards, key, acc)
                       /\ owner_index' = OwnerWrite(owner_index, key, acc)
                       /\ last_write' = [last_write EXCEPT ![key] = Some(acc)]
    /\ UNCHANGED <<inflight, api_key>>
    /\ UNCHANGED <<lock_vars, arc_vars, tier_vars, feed_vars>>

HandleGetProgramAccounts(headers, req) ==
    /\ ret = NoRet
    /\ \E overflow_checks \in BOOLEAN :
        ret' = [op |-> "getProgramAccounts", req |-> req]
               @@ get_program_accounts_handler(shards, owner_index, api_key,
                                               headers, req, overflow_checks)
    /\ UNCHANGED <<shards, owner_index, inflight, last_write, api_key>>
    /\ UNCHANGED <<lock_vars, arc_vars, tier_vars, feed_vars>>

HandleGetMultipleAccounts(headers, req) ==
    /\ ret = NoRet
    /\ ret' = [op |-> "getMultipleAccounts", req |-> req]
              @@ get_multiple_accounts(shards, api_key, headers, req)
    /\ UNCHANGED <<shards, owner_index, inflight, last_write, api_key>>
    /\ UNCHANGED <<lock_vars, arc_vars, tier_vars, feed_vars>>

HandleGetTokenAccountsByOwner(headers, req) ==
    /\ ret = NoRet
    /\ ret' = [op |-> "getTokenAccountsByOwner", req |-> req]
              @@ get_token_accounts_by_owner(shards, owner_index, api_key, headers, req)
    /\ UNCHANGED <<shards, owner_index, inflight, last_write, api_key>>
    /\ UNCHANGED <<lock_vars, arc_vars, tier_vars, feed_vars>>

HandleGetLargestTokenAccounts(headers, req) ==
    /\ ret = NoRet
    /\ ret' = [op |-> "getLargestTokenAccounts", req |-> req]
              @@ get_largest_token_accounts_handler(shards, owner_index, api_key,
                                                    headers, req)
    /\ UNCHANGED <<shards, owner_index, inflight, last_write, api_key>>
    /\ UNCHANGED <<lock_vars, arc_vars, tier_vars, feed_vars>>

\* the caller takes the returned value
Return ==
    /\ ret # NoRet
    /\ ret' = NoRet
    /\ UNCHANGED <<shards, owner_index, inflight, last_write, api_key>>
    /\ UNCHANGED <<lock_vars, arc_vars, tier_vars, feed_vars>>

NextRpc ==
    \/ \E account \in Updates : UpdateAccount(account)
    \/ \E h \in Headers, req \in ProgramAccountsReqs : HandleGetProgramAccounts(h, req)
    \/ \E h \in Headers, req \in MultipleAccountsReqs : HandleGetMultipleAccounts(h, req)
    \/ \E h \in Headers, req \in TokenAccountsByOwnerReqs :
            HandleGetTokenAccountsByOwner(h, req)
    \/ \E h \in Headers, req \in LargestTokenAccountsReqs :
            HandleGetLargestTokenAccounts(h, req)
    \/ Return

SpecRpc == Init /\ [][NextRpc]_vars

---------------------------------------------------------------------------
(* The overflow tier (feature "distributed"): insert's write to Redis,     *)
(* lines 84-101, and get's read from it, lines 114-135.  `redis` is the    *)
(* client of the index, `tier` the external store, `tasks` the writes      *)
(* spawned and not yet run, `fetch` the reads of the tier that get waits   *)
(* for.  One call of the index runs at a time.                             *)

\* where a call of the index is made: in an async task of a Tokio runtime,
\* on a thread that entered a runtime (spawn_blocking, Handle::enter), or on
\* a thread without a runtime (the validator's thread in update_account)
Contexts == {"async task", "blocking thread", "plain thread"}

\* tokio::spawn and Handle::current() panic outside a runtime
InRuntime(ctx) == ctx # "plain thread"

\* Handle::block_on panics inside an async task
MayBlockOn(ctx) == ctx = "blocking thread"

\* format!("acct:{}", key)
KeyStr(key) == <<"acct:">> \o to_string(key)

\* the records written in this specification
TierAccounts == {a \in Accounts : a.owner = TOKEN_PROGRAM /\ a.data # ShortBlob}

\* lines 90-91: the bytes written to the tier, for each record
Payloads == [a \in TierAccounts |-> compress(bincode_serialize(a))]

TierPayload(acc) == Payloads[acc]

\* what another client of the shared tier, or damage in it, leaves under a
\* key: a record's payload, a payload cut short, a payload whose first byte
\* is changed
OtherPayloads ==
    {TierPayload(a) : a \in TierAccounts}
    \cup {SubSeq(TierPayload(a), 1, Len(TierPayload(a)) \div 2) : a \in TierAccounts}
    \cup {[TierPayload(a) EXCEPT ![1] = (@ + 1) % 256] : a \in TierAccounts}

\* lines 124-133: what get does with the result of block_on.  maybe_bytes is
\* None when the connection or the GET failed, Some(None) when the key is
\* absent, Some(Some(bytes)) otherwise.
get_from_tier(maybe_bytes) ==
    IF maybe_bytes = None THEN [outcome |-> "Ok", val |-> None]
    ELSE IF Unwrap(maybe_bytes) = None THEN [outcome |-> "Ok", val |-> None]
    ELSE LET serialized == decompress(Unwrap(Unwrap(maybe_bytes)))
         IN  IF serialized.outcome = "panic" THEN [outcome |-> "panic", val |-> None]
             ELSE [outcome |-> "Ok", val |-> bincode_deserialize(serialized.body)]

\* enable_redis(url), lines 56-60: RedisClient::open parses the url only
EnableRedis(url) ==
    /\ redis = None
    /\ \A t \in Threads : fetch[t] = None
    /\ redis' = IF url = "redis://host" THEN Some(url) ELSE None
    /\ ret' = [op |-> "enable_redis", outcome |-> IF url = "redis://host" THEN "Ok" ELSE "Err"]
    /\ UNCHANGED <<shards, owner_index, inflight, last_write, api_key, tier, tasks, fetch,
                   lock_vars, arc_vars, feed_vars>>

\* insert(key, acc), lines 65-102, called in context ctx
TierInsert(key, acc, ctx) ==
    /\ \A t \in Threads : fetch[t] = None
    /\ shards' = ShardWrite(shards, key, acc)
    /\ owner_index' = OwnerWrite(owner_index, key, acc)
    /\ last_write' = [last_write EXCEPT ![key] = Some(acc)]
    /\ tasks' = IF redis # None /\ InRuntime(ctx)
                THEN tasks \cup {[key_str |-> KeyStr(key), payload |-> TierPayload(acc)]}
                ELSE tasks
    /\ ret' = [op |-> "insert", key |-> key, acc |-> acc, ctx |-> ctx,
               outcome |-> IF redis # None /\ ~InRuntime(ctx) THEN "panic" ELSE "Ok"]
    /\ UNCHANGED <<inflight, api_key, redis, tier, fetch, lock_vars, arc_vars, feed_vars>>

\* a spawned write runs, lines 93-100: the connection or set_ex fails and the
\* task panics, or the entry is written
RunTask(task, ok) ==
    /\ task \in tasks
    /\ tasks' = tasks \ {task}
    /\ tier' = IF ok THEN [tier EXCEPT !.store = MapInsert(@, task.key_str, task.payload)]
               ELSE tier
    /\ UNCHANGED <<shards, owner_index, inflight, last_write, ret, api_key, redis, fetch,
                   lock_vars, arc_vars, feed_vars>>

\* the entry's time to live (set_ex, line 97) runs out
Expire(key_str) ==
    /\ key_str \in DOMAIN tier.store
    /\ tier' = [tier EXCEPT !.store = MapRemove(@, key_str)]
    /\ UNCHANGED <<shards, owner_index, inflight, last_write, ret, api_key, redis, tasks,
                   fetch, lock_vars, arc_vars, feed_vars>>

\* another client of the tier writes under the key
OtherWriter(key, payload) ==
    /\ MapGet(tier.store, KeyStr(key)) # Some(payload)
    /\ tier' = [tier EXCEPT !.store = MapInsert(@, KeyStr(key), payload)]
    /\ UNCHANGED <<shards, owner_index, inflight, last_write, ret, api_key, redis, tasks,
                   fetch, lock_vars, arc_vars, feed_vars>>

\* get(key), lines 107-123, called by thread t in context ctx: the local
\* lookup, and on a miss with the tier enabled Handle::current() and the
\* start of block_on
TierGet(t, key, ctx) ==
    /\ \A u \in Threads : fetch[u] = None
    /\ LET r == get(shards, key)
           tier_read == r = None /\ redis # None
       IN  /\ fetch' = IF tier_read /\ MayBlockOn(ctx)
                       THEN [fetch EXCEPT ![t] = Some([key |-> key])]
                       ELSE fetch
           /\ ret' = IF tier_read /\ MayBlockOn(ctx) THEN NoRet
                     ELSE [op |-> "get", key |-> key, ctx |-> ctx, val |-> r,
                           outcome |-> IF tier_read THEN "panic" ELSE "Ok",
                           tier |-> IF tier_read THEN "not read" ELSE "not asked",
                           before |-> shards]
    /\ UNCHANGED <<shards, owner_index, inflight, last_write, api_key, redis, tier, tasks,
                   lock_vars, arc_vars, feed_vars>>

\* the tier answers the read of thread t and get goes on, lines 119-135:
\* reachable is whether the connection and the GET succeeded
TierReply(t, reachable) ==
    /\ fetch[t] # None
    /\ LET key == Unwrap(fetch[t]).key
           maybe_bytes == IF reachable THEN Some(MapGet(tier.store, KeyStr(key))) ELSE None
           r == get_from_tier(maybe_bytes)
       IN  /\ fetch' = [fetch EXCEPT ![t] = None]
           /\ IF r.val # None
              THEN \* lines 127-128: self.insert(*key, acc.clone())
                   /\ shards' = ShardWrite(shards, key, Unwrap(r.val))
                   /\ owner_index' = OwnerWrite(owner_index, key, Unwrap(r.val))
                   /\ last_write' = [last_write EXCEPT ![key] = r.val]
                   /\ tasks' = tasks \cup {[key_str |-> KeyStr(key),
                                            payload |-> TierPayload(Unwrap(r.val))]}
              ELSE UNCHANGED <<shards, owner_index, last_write, tasks>>
           /\ ret' = [op |-> "get", key |-> key, ctx |-> "blocking thread", val |-> r.val,
                      outcome |-> r.outcome,
                      tier |-> IF ~reachable THEN "unreachable"
                               ELSE IF Unwrap(maybe_bytes) = None THEN "absent"
                               ELSE IF r.val = None THEN "corrupt" ELSE "record",
                      before |-> shards]
    /\ UNCHANGED <<inflight, api_key, redis, tier, lock_vars, arc_vars, feed_vars>>

\* the steps of the program and of its runtime
TierProgram ==
    \/ \E url \in {"redis://host", "host"} : EnableRedis(url)
    \/ \E key \in Keys, acc \in TierAccounts, ctx \in Contexts : TierInsert(key, acc, ctx)
    \/ \E t \in Threads, key \in Keys, ctx \in Contexts : TierGet(t, key, ctx)
    \/ \E task \in tasks, ok \in BOOLEAN : RunTask(task, ok)

\* the steps of the external tier
TierEnvironment ==
    \/ \E key_str \in DOMAIN tier.store : Expire(key_str)
    \/ \E key \in Keys, payload \in OtherPayloads : OtherWriter(key, payload)
    \/ \E t \in Threads, reachable \in BOOLEAN : TierReply(t, reachable)

NextTier == TierProgram \/ TierEnvironment

SpecTier == Init /\ [][NextTier]_vars

\* the runtime runs every spawned task; nothing makes the tier answer
FairSpecTier == SpecTier /\ WF_vars(\E task \in tasks, ok \in BOOLEAN : RunTask(task, ok))

---------------------------------------------------------------------------
(* The change feed: the broadcast channel of main (main.rs 174) and the    *)
(* subscriptions of handle_socket (main.rs 628-689).  `chan` is the        *)
(* channel: tail counts the events sent, buf holds the events the channel  *)
(* retains, sent is the history of all events.  rx[s] is the receiver of   *)
(* subscriber s with its filters and what was written to its socket.       *)

\* broadcast::channel::<WsEvent>(8192): the number of events retained
ChannelCapacity == 2

\* the number of events sent in a behaviour
MaxEvents == 4

\* WsEvent::AccountUpdated
AccountUpdated(pubkey, lamports, slot) ==
    [pubkey |-> pubkey, lamports |-> lamports, slot |-> slot]

\* the last n elements of a sequence
LastN(s, n) == IF Len(s) <= n THEN s ELSE SubSeq(s, Len(s) - n + 1, Len(s))

\* broadcast::Sender::send: the event takes the next slot of the ring, the
\* oldest retained event is overwritten when the ring is full
ChannelSend(c, evt) ==
    [tail |-> c.tail + 1,
     buf |-> LastN(Append(c.buf, evt), ChannelCapacity),
     sent |-> Append(c.sent, evt)]

\* the position of the oldest event the channel retains
Oldest(c) == c.tail - Len(c.buf)

\* the query strings of a subscription: no filter, a program, an owner, an
\* owner that is no public key
WsQueries ==
    {[program |-> None, owner |-> None],
     [program |-> Some(to_string(TOKEN_PROGRAM)), owner |-> None],
     [program |-> None, owner |-> Some(to_string(1))],
     [program |-> None, owner |-> Some(MalformedKey)]}

\* lines 637-644: a filter that does not parse is no filter
ParseFilter(opt) == IF opt = None THEN None ELSE Pubkey_try_from(Unwrap(opt))

\* lines 648-672: the per-client filter.  The program branch looks the
\* account up in the index (the expression on lines 653-656 names the index
\* through the sender); the owner branch compares the event's key with the
\* owner filter.
Pass(sh, r, evt) ==
    IF r.program_filter # None
    THEN LET pk == Unwrap(Pubkey_try_from(evt.pubkey))
             acc == get(sh, pk)
         IN  acc # None /\ Unwrap(acc).owner = Unwrap(r.program_filter)
    ELSE IF r.owner_filter # None
    THEN evt.pubkey = to_string(Unwrap(r.owner_filter))
    ELSE TRUE

\* the subscriptions that are running
Open == {s \in Subscribers : rx[s] # None /\ Unwrap(rx[s]).open}

\* lines 634-644: the receiver of a new subscription, with its filters
Receiver(q, tail) ==
    [open |-> TRUE, why |-> "",
     program_filter |-> ParseFilter(q.program), owner_filter |-> ParseFilter(q.owner),
     since |-> tail, next |-> tail, got |-> <<>>]

\* websocket_handler and the head of handle_socket, lines 613-644
Subscribe(s, q) ==
    /\ rx[s] = None
    /\ rx' = [rx EXCEPT ![s] = Some(Receiver(q, chan.tail))]
    /\ UNCHANGED <<shards, owner_index, inflight, last_write, ret, api_key, chan,
                   lock_vars, arc_vars, tier_vars>>

\* the mutating caller: the record is inserted and an event for it is sent
\* on the channel.  The receiver main keeps (_rx, line 174) is never dropped,
\* so send finds a receiver and returns Ok.
Publish(key, acc) ==
    /\ chan.tail < MaxEvents
    /\ shards' = ShardWrite(shards, key, acc)
    /\ owner_index' = OwnerWrite(owner_index, key, acc)
    /\ last_write' = [last_write EXCEPT ![key] = Some(acc)]
    /\ chan' = ChannelSend(chan, AccountUpdated(to_string(key), acc.lamports, chan.tail))
    /\ ret' = [op |-> "send", outcome |-> "Ok", receivers |-> 1 + Cardinality(Open)]
    /\ UNCHANGED <<inflight, api_key, rx, lock_vars, arc_vars, tier_vars>>

\* one turn of the loop of handle_socket, lines 646-688: rx.recv() returns
\* Err(Lagged) when the next event of this receiver is no longer retained,
\* and the loop ends; otherwise the event is filtered and written to the
\* socket, and the loop ends when the client is gone
Recv(s, client_gone) ==
    /\ s \in Open
    /\ LET r == Unwrap(rx[s])
       IN  /\ r.next < chan.tail
           /\ IF r.next < Oldest(chan)
              THEN /\ ~client_gone
                   /\ rx' = [rx EXCEPT ![s] = Some([r EXCEPT !.open = FALSE, !.why = "Lagged"])]
              ELSE LET evt == chan.buf[r.next - Oldest(chan) + 1]
                   IN  IF ~Pass(shards, r, evt)
                       THEN /\ ~client_gone
                            /\ rx' = [rx EXCEPT ![s] = Some([r EXCEPT !.next = @ + 1])]
                       ELSE IF client_gone
                       THEN rx' = [rx EXCEPT ![s] =
                                     Some([r EXCEPT !.next = @ + 1, !.open = FALSE,
                                                    !.why = "client gone"])]
                       ELSE rx' = [rx EXCEPT ![s] =
                                     Some([r EXCEPT !.next = @ + 1, !.got = Append(@, evt)])]
    /\ UNCHANGED <<shards, owner_index, inflight, last_write, ret, api_key, chan,
                   lock_vars, arc_vars, tier_vars>>

NextFeed ==
    \/ \E s \in Subscribers, q \in WsQueries : Subscribe(s, q)
    \/ \E key \in Keys, acc \in ConcAccounts : Publish(key, acc)
    \/ \E s \in Subscribers, client_gone \in BOOLEAN : Recv(s, client_gone)

SpecFeed == Init /\ [][NextFeed]_vars

---------------------------------------------------------------------------
(* The server's boundary: every route of the router (main.rs 194-206)      *)
(* with the secret header a client sends, over an index fed by the         *)
(* producer.  The secret is configured at start-up (main.rs 178).          *)

\* POST /getAccountInfo, lines 413-447
get_account_info(sh, required, headers, req) ==
    LET auth == check_api_key(required, headers)
        pk == Pubkey_try_from(req.pubkey)
    IN  IF auth.outcome # "Ok" THEN auth
        ELSE IF pk = None THEN Err(400, "invalid pubkey")
        ELSE LET acc == get(sh, Unwrap(pk))
             IN  Ok(IF acc = None THEN None
                    ELSE Some(AccountResp(Unwrap(pk), Unwrap(acc))))

\* POST /simulateTransaction, lines 583-607: the request is forwarded and
\* the downstream's answer passed through, or the downstream is unreachable
simulate_transaction(required, headers, downstream) ==
    LET auth == check_api_key(required, headers)
    IN  IF auth.outcome # "Ok" THEN auth
        ELSE IF downstream = "unreachable" THEN Err(502, "downstream error")
        ELSE Ok(downstream)

\* GET /health, lines 245-254
health_handler(sh) ==
    IF len(sh) > 0 THEN [status |-> 200, body |-> "ok"]
    ELSE [status |-> 503, body |-> "cache empty"]

\* the x-api-key header of a request: absent, the secret, another text
SecretHeaders == {None, Some("secret"), Some("other")}

\* the calls of the query routes: each route with a well-formed request and
\* with malformed key text, lookup_many with malformed text at each position
GateCalls ==
    {[op |-> "getProgramAccounts", req |-> GetProgramAccountsReq(p, None, None, None)] :
        p \in {to_string(TOKEN_PROGRAM), MalformedKey}}
    \cup {[op |-> "getMultipleAccounts", req |-> [pubkeys |-> ks]] :
            ks \in {<<to_string(1), to_string(NKeys)>>, <<MalformedKey, to_string(1)>>,
                    <<to_string(1), MalformedKey>>,
                    <<to_string(1), MalformedKey, to_string(NKeys)>>}}
    \cup {[op |-> "getAccountInfo", req |-> [pubkey |-> p]] :
            p \in {to_string(1), MalformedKey}}
    \cup {[op |-> "getTokenAccountsByOwner",
           req |-> [owner |-> p, mint |-> m, limit |-> None, offset |-> None]] :
            p \in {to_string(TOKEN_PROGRAM), MalformedKey},
            m \in {None, Some(MalformedKey)}}
    \cup {[op |-> "getLargestTokenAccounts", req |-> [mint |-> m, limit |-> None]] :
            m \in {to_string(20), MalformedKey}}
    \cup {[op |-> "simulateTransaction", req |-> d] : d \in {"response", "unreachable"}}

\* the handler the router gives the call to
Dispatch(sh, oi, required, headers, call) ==
    CASE call.op = "getProgramAccounts" ->
            get_program_accounts_handler(sh, oi, required, headers, call.req, TRUE)
      [] call.op = "getMultipleAccounts" ->
            get_multiple_accounts(sh, required, headers, call.req)
      [] call.op = "getAccountInfo" ->
            get_account_info(sh, required, headers, call.req)
      [] call.op = "getTokenAccountsByOwner" ->
            get_token_accounts_by_owner(sh, oi, required, headers, call.req)
      [] call.op = "getLargestTokenAccounts" ->
            get_largest_token_accounts_handler(sh, oi, required, headers, call.req)
      [] call.op = "simulateTransaction" ->
            simulate_transaction(required, headers, call.req)

InitGate ==
    /\ shards = [i \in ShardIds |-> EmptyMap]
    /\ owner_index = EmptyMap
    /\ inflight = [t \in Threads |-> None]
    /\ last_write = [k \in Keys |-> None]
    /\ ret = NoRet
    /\ api_key \in {None, Some("secret")}
    /\ locks = NoLocks(TRUE)
    /\ heap = EmptyMap
    /\ held = [t \in Threads |-> None]
    /\ redis = None
    /\ tier = EmptyTier
    /\ tasks = {}
    /\ fetch = [t \in Threads |-> None]
    /\ chan = EmptyChannel
    /\ rx = [s \in Subscribers |-> None]

\* a request to a query route
Request(headers, call) ==
    /\ ret = NoRet
    /\ ret' = [op |-> call.op, headers |-> headers, req |-> call.req]
              @@ Dispatch(shards, owner_index, api_key, headers, call)
    /\ UNCHANGED <<shards, owner_index, inflight, last_write, api_key>>
    /\ UNCHANGED <<lock_vars, arc_vars, tier_vars, feed_vars>>

\* GET /ws, lines 613-644: the upgrade is accepted and handle_socket
\* subscribes
WsUpgrade(s, headers, q) ==
    /\ ret = NoRet
    /\ rx[s] = None
    /\ rx' = [rx EXCEPT ![s] = Some(Receiver(q, chan.tail))]
    /\ ret' = [op |-> "ws", headers |-> headers, req |-> q, subscriber |-> s] @@ Ok(<<>>)
    /\ UNCHANGED <<shards, owner_index, inflight, last_write, api_key, chan,
                   lock_vars, arc_vars, tier_vars>>

\* GET /health
Health ==
    /\ ret = NoRet
    /\ ret' = [op |-> "health"] @@ health_handler(shards)
    /\ UNCHANGED <<shards, owner_index, inflight, last_write, api_key>>
    /\ UNCHANGED <<lock_vars, arc_vars, tier_vars, feed_vars>>

NextGate ==
    \/ \E k \in Keys, a \in ConcAccounts : UpdateAccount(ReplicaAccountInfo("V0_0_3", k, a))
    \/ \E h \in SecretHeaders, call \in GateCalls : Request(h, call)
    \/ \E s \in Subscribers, h \in SecretHeaders, q \in WsQueries : WsUpgrade(s, h, q)
    \/ Health
    \/ Return

SpecGate == InitGate /\ [][NextGate]_vars

---------------------------------------------------------------------------
(* The health probe over the index: whole inserts and removes, and the     *)
(* probe of GET /health (main.rs 195), one call at a time.                 *)

NextHealth ==
    \/ \E key \in Keys, acc \in Accounts : Insert(key, acc)
    \/ \E key \in Keys : Remove(key)
    \/ Health
    \/ Return

SpecHealth == Init /\ [][NextHealth]_vars

---------------------------------------------------------------------------
(* The codec on its own: byte sequences are compressed and decompressed,   *)
(* and payloads that no compress produced are decompressed; one call at a  *)
(* time.                                                                   *)

CodecBytes == {0, 5, 255}

\* the input of tests::roundtrip
RoundtripTestInput == [i \in 1..1024 |-> 5]

\* every sequence of up to three bytes, runs of one byte, runs of a period
\* of three, a run followed by distinct bytes, the test's input and the
\* serialized accounts
CodecInputs ==
    UNION {[1..n -> CodecBytes] : n \in 0..3}
    \cup {[i \in 1..n |-> b] : n \in 4..MaxRun, b \in CodecBytes}
    \cup {[i \in 1..n |-> IF i % 3 = 0 THEN 255 ELSE 5] : n \in MFLIMIT..(2 * MaxRun)}
    \cup {[i \in 1..n |-> IF i <= MaxRun THEN 5 ELSE i] : n \in (MaxRun + 1)..(MaxRun + 6)}
    \cup {[i \in 1..(20 * MaxRun) |-> 0]}
    \cup {RoundtripTestInput}
    \cup {bincode_serialize(a) : a \in Accounts}

\* a frame cut short, a frame with one byte changed, a frame followed by
\* other bytes, and bytes that are no frame
CorruptPayloads ==
    LET c == compress([i \in 1..MaxRun |-> 5])
    IN  {SubSeq(c, 1, n) : n \in 0..(Len(c) - 1)}
        \cup {[c EXCEPT ![i] = (@ + 1) % 256] : i \in 1..Len(c)}
        \cup {c \o <<1, 2, 3>>}
        \cup {[i \in 1..n |-> 5] : n \in 1..MaxRun}

\* compress(x)
Compress(x) ==
    /\ ret = NoRet
    /\ ret' = [op |-> "compress", arg |-> x, val |-> compress(x)]
    /\ UNCHANGED <<shards, owner_index, inflight, last_write, api_key>>
    /\ UNCHANGED <<lock_vars, arc_vars, tier_vars, feed_vars>>

\* decompress of what the last compress returned
Decompress ==
    /\ ret.op = "compress"
    /\ ret' = [op |-> "decompress", orig |-> Some(ret.arg), arg |-> ret.val,
               val |-> decompress(ret.val)]
    /\ UNCHANGED <<shards, owner_index, inflight, last_write, api_key>>
    /\ UNCHANGED <<lock_vars, arc_vars, tier_vars, feed_vars>>

\* decompress of a payload that no compress returned
DecompressPayload(p) ==
    /\ ret = NoRet
    /\ ret' = [op |-> "decompress", orig |-> None, arg |-> p, val |-> decompress(p)]
    /\ UNCHANGED <<shards, owner_index, inflight, last_write, api_key>>
    /\ UNCHANGED <<lock_vars, arc_vars, tier_vars, feed_vars>>

NextCodec ==
    \/ \E x \in CodecInputs : Compress(x)
    \/ Decompress
    \/ \E p \in CorruptPayloads : DecompressPayload(p)
    \/ Return

SpecCodec == Init /\ [][NextCodec]_vars

---------------------------------------------------------------------------
(* Properties of the index *)

\* the keys of a list of (key, account) pairs
KeysOf(pairs) == {pairs[i][1] : i \in 1..Len(pairs)}

\* C1: after insert(k, r), get(k) returns a record equal to r on every
\* field; after several inserts of k it is the record of the last one.
C1_InsertThenGet ==
    (ret.op = "get" /\ last_write[ret.key] # None) =>
        /\ ret.val # None
        /\ LET got == Unwrap(ret.val)
               r == Unwrap(last_write[ret.key])
           IN  /\ got.owner = r.owner
               /\ got.lamports = r.lamports
               /\ got.data = r.data
               /\ got.executable = r.executable
               /\ got.rent_epoch = r.rent_epoch

\* a get that returns the record of a key inserted before under another owner
C1_Witness ==
    /\ ret.op = "get"
    /\ ret.val # None
    /\ \E o \in DOMAIN owner_index :
        /\ o # Unwrap(ret.val).owner
        /\ Contains(owner_index[o], ret.key)

\* C2: after remove(k), get_program_accounts(owner of k) does not return k,
\* although the owner bucket still lists k; remove takes k out of the
\* primary shard.
C2_RemovedKeyExcluded ==
    /\ ret.op = "remove" => get(shards, ret.key) = None
    /\ ret.op = "get_program_accounts" =>
        \A k \in KeysOf(ret.val) : last_write[k] # None

\* a query by owner whose bucket lists a removed key beside a present one
C2_Witness ==
    /\ ret.op = "get_program_accounts"
    /\ ret.program \in DOMAIN owner_index
    /\ \E k \in Keys :
        /\ Contains(owner_index[ret.program], k)
        /\ last_write[k] = None
        /\ k \notin KeysOf(ret.val)
    /\ ret.val # <<>>

\* C3: every record get_program_accounts(owner) returns is owned by owner.
C3_OnlyOwned ==
    ret.op = "get_program_accounts" =>
        \A i \in 1..Len(ret.val) : ret.val[i][2].owner = ret.program

\* C4: get_program_accounts(owner) returns every record of the index that
\* is owned by owner (every call of this specification is made in a
\* quiescent state: no insert is half done).
C4_Complete ==
    (ret.op = "get_program_accounts" /\ \A t \in Threads : inflight[t] = None) =>
        \A k \in Keys :
            (last_write[k] # None /\ Unwrap(last_write[k]).owner = ret.program) =>
                \E i \in 1..Len(ret.val) : ret.val[i] = <<k, Unwrap(last_write[k])>>

\* a query by owner that returns a record and skips a stale bucket entry
C4_Witness ==
    /\ ret.op = "get_program_accounts"
    /\ ret.program \in DOMAIN owner_index
    /\ Len(ret.val) >= 1
    /\ Len(owner_index[ret.program]) > Len(ret.val)
    /\ \A i \in 1..Len(ret.val) : ret.val[i][2].owner = ret.program

\* C5: no owner bucket lists a key twice, whatever the interleaving of the
\* inserts.
C5_NoDuplicates ==
    \A o \in DOMAIN owner_index :
        \A i, j \in 1..Len(owner_index[o]) :
            i # j => owner_index[o][i] # owner_index[o][j]

\* an insert returns without pushing while another thread is half way
\* through an insert of the same key under the same owner
C5_Witness ==
    /\ ret.op = "insert"
    /\ ~ret.pushed
    /\ \E t \in Threads :
        /\ inflight[t] # None
        /\ Unwrap(inflight[t]).key = ret.key
        /\ Unwrap(inflight[t]).acc.owner = ret.acc.owner

\* C12: a key's record is stored in one shard only, the shard that
\* shard_index gives for the key, which is a shard of the index; a get of a
\* stored key finds it there.
C12_ShardStable ==
    /\ \A k \in Keys : shard_index(k) \in ShardIds
    /\ \A i \in ShardIds : \A k \in DOMAIN shards[i] : shard_index(k) = i
    /\ \A k \in Keys :
        last_write[k] # None => {i \in ShardIds : k \in DOMAIN shards[i]} = {shard_index(k)}
    /\ (ret.op = "get" /\ last_write[ret.key] # None) =>
        ret.val = Some(shards[shard_index(ret.key)][ret.key])

\* a get finds its key while another shard holds another key
C12_Witness ==
    /\ ret.op = "get"
    /\ ret.val # None
    /\ \E i \in ShardIds : i # shard_index(ret.key) /\ DOMAIN shards[i] # {}

\* the threads that are inside insert
Inserting == {t \in Threads : inflight[t] # None /\ Unwrap(inflight[t]).at # "done"}

\* C14: concurrent inserts all complete and none is lost: whenever threads
\* are inside insert one of them can take its next step, and once every
\* thread has returned, get returns each thread's record (the last one
\* written when two threads wrote the same key), len() counts every key and
\* no lock is held.
C14_ConcurrentInserts ==
    /\ Inserting # {} => \E t \in Inserting : ENABLED InsertStep(t)
    /\ (\A t \in Threads : At(t, "done")) =>
        /\ \A t \in Threads :
            LET c == Unwrap(inflight[t])
            IN  /\ get(shards, c.key) = last_write[c.key]
                /\ (\A u \in Threads \ {t} : Unwrap(inflight[u]).key # c.key) =>
                        get(shards, c.key) = Some(c.acc)
                /\ Contains(owner_index[c.acc.owner], c.key)
        /\ len(shards) = Cardinality({Unwrap(inflight[t]).key : t \in Threads})
        /\ locks.dash = {} /\ locks.bucket = {}

\* every thread has inserted a key of its own, the keys in different
\* shards, their owners in one shard of the owner map
C14_Witness ==
    /\ \A t \in Threads : At(t, "done")
    /\ ~locks.spread
    /\ \A t, u \in Threads :
        t # u => shard_index(Unwrap(inflight[t]).key) # shard_index(Unwrap(inflight[u]).key)
    /\ \E t, u \in Threads : Unwrap(inflight[t]).acc.owner # Unwrap(inflight[u]).acc.owner

\* C15: the record a reader got from get keeps every field value through
\* later inserts and removes of its key, and it is a record that was
\* inserted as a whole.
C15_Snapshot ==
    /\ \A t \in Threads :
        held[t] # None =>
            /\ Unwrap(held[t]).ptr \in DOMAIN heap
            /\ heap[Unwrap(held[t]).ptr] = Unwrap(held[t]).seen
            /\ Unwrap(held[t]).seen \in Accounts
    /\ ret.op = "read" => ret.val = Unwrap(held[ret.reader]).seen

\* a reader reads its record after the key was given another record, while
\* another reader holds that newer record
C15_Witness ==
    /\ ret.op = "read"
    /\ last_write[Unwrap(held[ret.reader]).key] # None
    /\ last_write[Unwrap(held[ret.reader]).key] # Some(ret.val)
    /\ \E u \in Threads :
        /\ held[u] # None
        /\ Unwrap(held[u]).key = Unwrap(held[ret.reader]).key
        /\ Unwrap(held[u]).seen # ret.val

\* the bucket of an owner, empty when the owner has none
BucketOf(oi, o) == IF o \in DOMAIN oi THEN oi[o] ELSE <<>>

\* C29: insert(key, acc) gives key its record and changes nothing else but
\* the bucket of acc.owner: the other keys keep their records, the other
\* owners keep their buckets (the bucket of key's previous owner still lists
\* key), the bucket of acc.owner is as before or has key appended at its
\* end; and in no step of the index a bucket does anything but grow at its
\* end.
C29_InsertFrame ==
    [][/\ \A o \in DOMAIN owner_index :
             /\ o \in DOMAIN owner_index'
             /\ Len(owner_index[o]) <= Len(owner_index'[o])
             /\ SubSeq(owner_index'[o], 1, Len(owner_index[o])) = owner_index[o]
       /\ ret'.op = "insert" =>
             LET key == ret'.key
                 acc == ret'.acc
             IN  Insert(key, acc) =>
                 /\ get(shards', key) = Some(acc)
                 /\ \A k2 \in Keys \ {key} : get(shards', k2) = get(shards, k2)
                 /\ \A i \in ShardIds \ {shard_index(key)} : shards'[i] = shards[i]
                 /\ DOMAIN owner_index' = DOMAIN owner_index \cup {acc.owner}
                 /\ \A o \in DOMAIN owner_index \ {acc.owner} :
                        owner_index'[o] = owner_index[o]
                 /\ get(shards, key) # None =>
                        LET prev == Unwrap(get(shards, key)).owner
                        IN  Contains(BucketOf(owner_index, prev), key) =>
                                Contains(owner_index'[prev], key)
                 /\ owner_index'[acc.owner] \in
                        {BucketOf(owner_index, acc.owner),
                         Append(BucketOf(owner_index, acc.owner), key)}
      ]_vars

\* an insert has moved a key to another owner: the key is listed in the
\* bucket of its previous owner and, last, in the bucket of its new owner,
\* which held another key before
C29_Witness ==
    /\ ret.op = "insert" /\ ret.pushed
    /\ get(shards, ret.key) = Some(ret.acc)
    /\ Len(owner_index[ret.acc.owner]) > 1
    /\ owner_index[ret.acc.owner][Len(owner_index[ret.acc.owner])] = ret.key
    /\ \E o \in DOMAIN owner_index \ {ret.acc.owner} : Contains(owner_index[o], ret.key)

\* C30: between calls len() is the number of keys that have a record: an
\* insert of a key without a record raises it by one, an insert over a
\* record leaves it as it is; and the health probe answers healthy exactly
\* when len() > 0.
C30_LenCounts ==
    /\ [](/\ len(shards) = Cardinality({k \in Keys : get(shards, k) # None})
          /\ ret.op = "health" => (ret.status = 200 <=> len(shards) > 0)
          /\ ret.op = "health" => (ret.status = 503 <=> len(shards) = 0))
    /\ [][ret'.op = "insert" /\ Insert(ret'.key, ret'.acc) =>
             len(shards') = len(shards) + (IF get(shards, ret'.key) = None THEN 1 ELSE 0)
         ]_vars

\* the probe answers healthy over an index that holds a record in each of
\* two shards, with a key listed under both owners (it was written more
\* than once)
C30_Witness ==
    /\ ret.op = "health" /\ ret.status = 200
    /\ \E k1, k2 \in Keys :
           /\ shard_index(k1) # shard_index(k2)
           /\ get(shards, k1) # None /\ get(shards, k2) # None
    /\ len(shards) < Len(BucketOf(owner_index, TOKEN_PROGRAM))
                     + Len(BucketOf(owner_index, 11))

---------------------------------------------------------------------------
(* Properties of the locks *)

HoldsBucket(t) ==
    \/ \E l \in locks.bucket : l[2] = t
    \/ \E l \in locks.reads : l[1] = "bucket" /\ l[3] = t

HoldsPrimary(t) == \E l \in locks.reads : l[1] = "primary" /\ l[3] = t

\* C25: no thread holds the lock of an owner bucket and the lock of a
\* primary shard at the same time, in an insert or in the owner fast path
C25_NoNestedLocks == \A t \in Threads : ~(HoldsBucket(t) /\ HoldsPrimary(t))

\* the threads that are inside the owner fast path
Reading == {t \in Threads : At(t, "read") \/ At(t, "iter") \/ At(t, "get")}

\* C28: under every interleaving of inserts and fast-path reads, every key
\* listed in an owner bucket has a record in the primary index, and a read
\* has resolved every candidate of the bucket it has visited.
C28_BucketsResolve ==
    /\ \A o \in DOMAIN owner_index :
           \A i \in 1..Len(owner_index[o]) : get(shards, owner_index[o][i]) # None
    /\ \A t \in Reading :
           LET c == Unwrap(inflight[t])
           IN  /\ Len(c.out) = c.i - 1
               /\ \A i \in 1..Len(c.out) : c.out[i][1] = owner_index[c.owner][i]

\* a read is looking up a key of a bucket while another thread is between
\* the two writes of an insert under the same owner: its key has a record
\* and is not yet listed
C28_Witness ==
    \E t, u \in Threads :
        /\ At(t, "get")
        /\ At(u, "entry")
        /\ Unwrap(inflight[u]).acc.owner = Unwrap(inflight[t]).owner
        /\ get(shards, Unwrap(inflight[u]).key) # None
        /\ ~Contains(owner_index[Unwrap(inflight[t]).owner], Unwrap(inflight[u]).key)

---------------------------------------------------------------------------
(* Properties of the overflow tier *)

\* the insert that returned left its record in the shard and its key in the
\* owner's bucket
Committed ==
    /\ get(shards, ret.key) = Some(ret.acc)
    /\ ret.acc.owner \in DOMAIN owner_index
    /\ Contains(owner_index[ret.acc.owner], ret.key)

\* C16: with the tier enabled, insert commits the shard and owner-index
\* update and returns normally.
C16_InsertReturns ==
    ret.op = "insert" /\ redis # None => ret.outcome = "Ok" /\ Committed

\* C16, inside a runtime: called in an async task or on a thread that
\* entered a runtime, insert with the tier enabled commits and returns
\* normally, and it commits in every context.
C16_InRuntime ==
    ret.op = "insert" =>
        /\ Committed
        /\ InRuntime(ret.ctx) => ret.outcome = "Ok"

\* C17: a get that missed locally and got no record out of the tier (tier
\* unreachable, key absent, payload corrupt) returns not-found normally and
\* leaves the shards as they were.
C17_FailureIsMiss ==
    ret.op = "get" /\ ret.tier \in {"unreachable", "absent", "corrupt"} =>
        ret.outcome = "Ok" /\ ret.val = None /\ shards = ret.before

\* C17, but for payloads the LZ4 decoder rejects: the same when the tier was
\* unreachable, the key absent, or the payload decoded to bytes that are no
\* account.
C17_ButDecoderError ==
    ret.op = "get" /\ ret.tier \in {"unreachable", "absent", "corrupt"}
    /\ ret.outcome # "panic" =>
        ret.val = None /\ shards = ret.before

\* C18: a get that waits for the tier returns eventually, whether or not
\* the tier answers.
C18_GetReturns ==
    \A t \in Threads : (fetch[t] # None) ~> (fetch[t] = None)

\* the writes to the tier that differ in key or payload; `tasks` holds the
\* ones spawned and not yet run
TierWrites ==
    {[key_str |-> KeyStr(k), payload |-> TierPayload(a)] : k \in Keys, a \in TierAccounts}

\* C26: the background writes in flight stay under a fixed bound, whatever
\* the burst of inserts: the writes a burst spawns are never all in flight
\* at the same time
C26_WritesBounded == Cardinality(tasks) < Cardinality(TierWrites)

\* the tier holds under the key the payload of a record
ValidEntry(key) ==
    \E a \in TierAccounts : MapGet(tier.store, KeyStr(key)) = Some(TierPayload(a))

\* a step in which a get of key returns, called in one of the contexts C,
\* after a local miss, with the tier enabled, holding a valid entry and
\* answering if asked: get returns the entry's record, the shard maps the
\* key to it (so the next get is a local hit) and the owner's bucket lists
\* the key
RestoresIn(C) ==
    \A key \in Keys :
        /\ ret'.op = "get" /\ (ret' # ret \/ fetch' # fetch)
        /\ ret'.key = key /\ ret'.ctx \in C /\ ret'.tier # "unreachable"
        /\ get(shards, key) = None /\ redis # None /\ ValidEntry(key)
        => \E a \in TierAccounts :
               /\ MapGet(tier.store, KeyStr(key)) = Some(TierPayload(a))
               /\ ret'.outcome = "Ok" /\ ret'.val = Some(a)
               /\ get(shards', key) = Some(a)
               /\ a.owner \in DOMAIN owner_index'
               /\ Contains(owner_index'[a.owner], key)

\* C27: a get that misses locally while the tier holds a valid entry for
\* the key returns the decoded record and repopulates the shard and the
\* owner's bucket, so that a following get is a local hit.
C27_Repopulates == [][RestoresIn(Contexts)]_vars

\* C27, on a thread that may block: the same for a get called on a blocking
\* thread of the runtime.
C27_OnBlockingThread == [][RestoresIn({"blocking thread"})]_vars

---------------------------------------------------------------------------
(* Properties of the change feed *)

\* C19: when update_account has returned Ok, an event for the account it
\* wrote has been sent on the channel.
C19_MutationPublished ==
    ret.op = "update_account" /\ ret.outcome = "Ok" =>
        \E i \in 1..Len(chan.sent) :
            Pubkey_try_from(chan.sent[i].pubkey) = Pubkey_from_slice(ret.req.pubkey)

\* the events subscriber s is owed: those sent since it subscribed, up to
\* its position, that pass its filter on the event's key
Owed(s) ==
    LET r == Unwrap(rx[s])
    IN  [i \in {j \in (r.since + 1)..r.next :
                    r.owner_filter # None =>
                        chan.sent[j].pubkey = to_string(Unwrap(r.owner_filter))}
            |-> chan.sent[i]]

\* what was written to the socket of subscriber s, by position
Got(s) ==
    LET r == Unwrap(rx[s])
    IN  [i \in {r.got[j].slot + 1 : j \in 1..Len(r.got)} |-> chan.sent[i]]

\* the publisher is not blocked and gets no error, and a subscription that
\* is running has written to its socket every event it is owed
FeedUnaffected ==
    /\ chan.tail < MaxEvents => \A key \in Keys, acc \in ConcAccounts : ENABLED Publish(key, acc)
    /\ ret.op = "send" => ret.outcome = "Ok"
    /\ \A s \in Open : Unwrap(rx[s]).program_filter = None => Got(s) = Owed(s)

\* C20: when a subscriber's queue overflows the publisher is not blocked
\* and gets no error, the other subscribers get every event, and the
\* overflow does not end the subscription of the subscriber that lags.
C20_OverflowDropsOnly ==
    /\ FeedUnaffected
    /\ \A s \in Subscribers : rx[s] # None => Unwrap(rx[s]).why # "Lagged"

\* C20, but for the lagging subscriber: the publisher and the subscribers
\* that keep up are unaffected, and every subscription that has ended was
\* ended by an overflow of its own queue or by its client.
C20_ButLagging ==
    /\ FeedUnaffected
    /\ \A s \in Subscribers \ Open :
        rx[s] # None =>
            \/ Unwrap(rx[s]).why = "client gone"
            \/ Unwrap(rx[s]).why = "Lagged" /\ Unwrap(rx[s]).next < Oldest(chan)

---------------------------------------------------------------------------
(* Properties of the producer *)

\* C24: an update of another version, or with a key or owner that is not 32
\* bytes, returns an error and leaves the index as it was; any other update
\* returns Ok and leaves under the supplied key a record with exactly the
\* supplied owner, lamports, data, executable flag and rent epoch.
C24_Producer ==
    [][ret'.op = "update_account" /\ ret.op # "update_account" =>
        LET a == ret'.req
        IN  IF a.version # "V0_0_3" \/ Len(a.pubkey) # PUBKEY_BYTES
               \/ Len(a.owner) # PUBKEY_BYTES
            THEN /\ ret'.outcome = "Err"
                 /\ shards' = shards /\ owner_index' = owner_index
            ELSE /\ ret'.outcome = "Ok"
                 /\ \E k \in Keys, o \in Pubkeys :
                        /\ as_ref(k) = a.pubkey /\ as_ref(o) = a.owner
                        /\ get(shards', k) =
                             Some([owner |-> o, lamports |-> a.lamports, data |-> a.data,
                                   executable |-> a.executable,
                                   rent_epoch |-> a.rent_epoch])
                        /\ \A k2 \in Keys \ {k} : get(shards', k2) = get(shards, k2)]_vars

\* an update of another version was rejected while the index holds records
C24_Witness ==
    /\ ret.op = "update_account" /\ ret.outcome = "Err"
    /\ ret.req.version # "V0_0_3"
    /\ len(shards) > 0

---------------------------------------------------------------------------
(* Properties of the server's boundary *)

\* the query routes, and the text fields of a request that hold keys
QueryRoutes ==
    {"getProgramAccounts", "getMultipleAccounts", "getAccountInfo",
     "getTokenAccountsByOwner", "getLargestTokenAccounts", "simulateTransaction", "ws"}

\* a response is the rejection of the secret
Unauthorized == ret.outcome = "Err" /\ ret.status = 401

\* the routes in S reject exactly the requests whose header is not the
\* configured secret, and a rejected subscribe makes no subscription
GateOn(S) ==
    ret.op \in S =>
        IF api_key # None /\ ret.headers # api_key
        THEN Unauthorized /\ (ret.op = "ws" => rx[ret.subscriber] = None)
        ELSE ~Unauthorized

\* C22: with a secret configured every query route, subscribe included,
\* rejects a request whose header is missing or different; without a secret
\* every request is admitted.
C22_Gate == GateOn(QueryRoutes)

\* C22, but for subscribe: the same for the routes other than /ws.
C22_ButSubscribe == GateOn(QueryRoutes \ {"ws"})

\* the key texts of the request that was answered
KeyTextsOf(r) ==
    CASE r.op = "getProgramAccounts" -> {r.req.program}
      [] r.op = "getMultipleAccounts" -> {r.req.pubkeys[i] : i \in 1..Len(r.req.pubkeys)}
      [] r.op = "getAccountInfo" -> {r.req.pubkey}
      [] r.op = "getTokenAccountsByOwner" ->
            {r.req.owner} \cup (IF r.req.mint = None THEN {} ELSE {Unwrap(r.req.mint)})
      [] r.op = "getLargestTokenAccounts" -> {r.req.mint}
      [] r.op = "ws" ->
            (IF r.req.program = None THEN {} ELSE {Unwrap(r.req.program)})
            \cup (IF r.req.owner = None THEN {} ELSE {Unwrap(r.req.owner)})
      [] OTHER -> {}

\* an admitted request to a route in S with a malformed key text gets a
\* client error and nothing else
MalformedOn(S) ==
    ret.op \in S /\ ~Unauthorized /\ MalformedKey \in KeyTextsOf(ret) =>
        /\ ret.outcome = "Err" /\ ret.status = 400
        /\ ret.op = "ws" => rx[ret.subscriber] = None

\* C23: a malformed key or owner text in a request yields a client error
\* and no partial result, on the query routes and on subscribe.
C23_MalformedIsError == MalformedOn(QueryRoutes)

\* C23, but for subscribe: the same for the routes other than /ws.
C23_ButSubscribe == MalformedOn(QueryRoutes \ {"ws"})

---------------------------------------------------------------------------
(* Properties of the codec *)

\* C13: decompress(compress(x)) = x for every byte sequence x, the empty
\* sequence included.
C13_RoundTrip ==
    (ret.op = "decompress" /\ ret.orig # None) =>
        ret.val = [outcome |-> "Ok", body |-> Unwrap(ret.orig)]

\* a round trip through a frame whose block is stored compressed
C13_Witness ==
    /\ ret.op = "decompress"
    /\ ret.orig # None
    /\ ret.val.outcome = "Ok"
    /\ Len(ret.arg) > Len(FrameHeader) + 4
    /\ ret.arg[Len(FrameHeader) + 4] < 128
    /\ Len(ret.arg) < Len(Unwrap(ret.orig))

---------------------------------------------------------------------------
(* Properties of the dispatcher *)

\* the record last written under a key, None for a key never written
Written(k) == IF k \in Keys THEN last_write[k] ELSE None

\* the number a key text stands for
KeyOfText(str) == str[1] * 58 + str[2]

\* a response item carries the fields of account r under key k
RespIs(item, k, r) ==
    /\ item.pubkey = to_string(k)
    /\ item.lamports = r.lamports
    /\ base64_decode(item.data) = Some(r.data)
    /\ item.owner = to_string(r.owner)
    /\ item.executable = r.executable
    /\ item.rent_epoch = r.rent_epoch

\* C6: getMultipleAccounts over well-formed keys answers with a list as long
\* as the request, position i holding the record of keys[i] when the index
\* has one and the absent marker otherwise.
C6_LookupMany ==
    (/\ ret.op = "getMultipleAccounts"
     /\ \A i \in 1..Len(ret.req.pubkeys) : Pubkey_try_from(ret.req.pubkeys[i]) # None) =>
        /\ ret.outcome = "Ok"
        /\ Len(ret.body) = Len(ret.req.pubkeys)
        /\ \A i \in 1..Len(ret.req.pubkeys) :
            LET k == KeyOfText(ret.req.pubkeys[i])
            IN  IF Written(k) = None
                THEN ret.body[i] = None
                ELSE /\ ret.body[i] # None
                     /\ RespIs(Unwrap(ret.body[i]), k, Unwrap(Written(k)))

\* three keys are looked up, the middle one is absent and the others are not
C6_Witness ==
    /\ ret.op = "getMultipleAccounts"
    /\ ret.outcome = "Ok"
    /\ Len(ret.body) = 3
    /\ ret.body[1] # None
    /\ ret.body[2] = None
    /\ ret.body[3] # None

\* the request without its page window
Unpaged(req) == [req EXCEPT !.offset = None, !.limit = None]

\* the responses the handler of ret.op can give to a request in this state
ResponsesTo(req) ==
    IF ret.op = "getProgramAccounts"
    THEN {get_program_accounts_handler(shards, owner_index, api_key, None, req, oc) :
            oc \in BOOLEAN}
    ELSE {get_token_accounts_by_owner(shards, owner_index, api_key, None, req)}

\* `page` is `full` without its first `offset` items, cut to `limit` items
IsPageOf(page, full, offset, limit) ==
    LET off == IF offset = None THEN 0 ELSE Unwrap(offset)
        rest == IF off >= Len(full) THEN 0 ELSE Len(full) - off
        n == IF limit # None /\ Unwrap(limit) < rest THEN Unwrap(limit) ELSE rest
    IN  /\ Len(page) = n
        /\ \A i \in 1..n : page[i] = full[off + i]
        /\ limit # None => Len(page) <= Unwrap(limit)
        /\ off >= Len(full) => page = <<>>

\* C7: getProgramAccounts and getTokenAccountsByOwner apply offset before
\* limit: the answer is the unpaged answer without its first offset items,
\* cut to at most limit items; an offset past the end gives the empty list,
\* and the page window never turns an answer into an error.
C7_Pagination ==
    ret.op \in {"getProgramAccounts", "getTokenAccountsByOwner"} =>
        \E full \in ResponsesTo(Unpaged(ret.req)) :
            /\ full.outcome = ret.outcome
            /\ full.outcome = "Ok" =>
                IsPageOf(ret.body, full.body, ret.req.offset, ret.req.limit)

\* a page that starts inside the result and is cut by the limit
C7_Witness ==
    /\ ret.op = "getProgramAccounts"
    /\ ret.outcome = "Ok"
    /\ ret.req.offset = Some(1)
    /\ ret.req.limit # None
    /\ Len(ret.body) = Unwrap(ret.req.limit)
    /\ Len(ret.body) >= 1
    /\ \E full \in ResponsesTo(Unpaged(ret.req)) :
        full.outcome = "Ok" /\ Len(full.body) > Len(ret.body)

\* a record's data satisfies a filter (offsets are plain integers here)
FilterSat(f, data) ==
    IF f.kind = "memcmp"
    THEN LET bytes == Unwrap(base64_decode(f.bytes))
         IN  /\ f.offset + Len(bytes) <= Len(data)
             /\ SubSeq(data, f.offset + 1, f.offset + Len(bytes)) = bytes
    ELSE Len(data) = f.size

Decodable(f) == f.kind = "memcmp" => base64_decode(f.bytes) # None

\* s is t with some of its items left out
RECURSIVE IsSubsequence(_, _)
IsSubsequence(s, t) ==
    IF s = <<>> THEN TRUE
    ELSE IF t = <<>> THEN FALSE
    ELSE IF s[1] = t[1] THEN IsSubsequence(Tail(s), Tail(t))
    ELSE IsSubsequence(s, Tail(t))

\* C8: getProgramAccounts(P, filters) returns exactly the records owned by
\* P that satisfy every filter, in the order of the unfiltered result.
C8_FiltersConjunctive ==
    (/\ ret.op = "getProgramAccounts"
     /\ ret.outcome = "Ok"
     /\ ret.req.filters # None
     /\ ret.req.offset = None /\ ret.req.limit = None
     /\ \A i \in 1..Len(Unwrap(ret.req.filters)) : Decodable(Unwrap(ret.req.filters)[i])) =>
        LET fs == Unwrap(ret.req.filters)
            P == KeyOfText(ret.req.program)
            Sat(data) == \A i \in 1..Len(fs) : FilterSat(fs[i], data)
        IN  /\ \A i \in 1..Len(ret.body) :
                /\ ret.body[i].owner = to_string(P)
                /\ Sat(Unwrap(base64_decode(ret.body[i].data)))
            /\ \A k \in Keys :
                (/\ Written(k) # None
                 /\ Unwrap(Written(k)).owner = P
                 /\ Sat(Unwrap(Written(k)).data)) =>
                    \E i \in 1..Len(ret.body) :
                        RespIs(ret.body[i], k, Unwrap(Written(k)))
            /\ \E full \in ResponsesTo([ret.req EXCEPT !.filters = None]) :
                full.outcome = "Ok" /\ IsSubsequence(ret.body, full.body)

\* what of C8 the dispatcher does keep: the answer is, in order, the items
\* of the unfiltered answer that satisfy every filter
C8_FilterOfUnfiltered ==
    (/\ ret.op = "getProgramAccounts"
     /\ ret.outcome = "Ok"
     /\ ret.req.filters # None
     /\ ret.req.offset = None /\ ret.req.limit = None
     /\ \A i \in 1..Len(Unwrap(ret.req.filters)) : Decodable(Unwrap(ret.req.filters)[i])) =>
        LET fs == Unwrap(ret.req.filters)
            Sat(item) == \A i \in 1..Len(fs) :
                            FilterSat(fs[i], Unwrap(base64_decode(item.data)))
        IN  \E full \in ResponsesTo([ret.req EXCEPT !.filters = None]) :
                /\ full.outcome = "Ok"
                /\ ret.body = SelectSeq(full.body, Sat)

\* C9: a memcmp filter whose offset + len exceeds the data excludes the
\* record, for every usize offset, and never aborts the request.
C9_OutOfRangeExcluded ==
    (ret.op = "getProgramAccounts" /\ ret.req.filters # None) =>
        /\ ret.outcome # "panic"
        /\ ret.outcome = "Ok" =>
            \A i \in 1..Len(ret.body), j \in 1..Len(Unwrap(ret.req.filters)) :
                LET f == Unwrap(ret.req.filters)[j]
                IN  f.kind = "memcmp" =>
                        f.offset + Len(unwrap_or_default(base64_decode(f.bytes)))
                            <= Len(Unwrap(base64_decode(ret.body[i].data)))

\* what of C9 the dispatcher does keep: when offset + len does not pass the
\* largest usize, an out-of-range filter excludes the record and nothing
\* aborts
C9_NoWrapExcluded ==
    (/\ ret.op = "getProgramAccounts"
     /\ ret.req.filters # None
     /\ \A j \in 1..Len(Unwrap(ret.req.filters)) :
            LET f == Unwrap(ret.req.filters)[j]
            IN  f.kind = "memcmp" =>
                    f.offset + Len(unwrap_or_default(base64_decode(f.bytes))) <= USIZE_MAX) =>
        /\ ret.outcome = "Ok"
        /\ \A i \in 1..Len(ret.body), j \in 1..Len(Unwrap(ret.req.filters)) :
                LET f == Unwrap(ret.req.filters)[j]
                IN  f.kind = "memcmp" =>
                        f.offset + Len(unwrap_or_default(base64_decode(f.bytes)))
                            <= Len(Unwrap(base64_decode(ret.body[i].data)))

\* the data of a response item starts with the bytes of the mint
ItemHasMint(item, mint) ==
    LET data == Unwrap(base64_decode(item.data))
    IN  Len(data) >= PUBKEY_BYTES /\ SubSeq(data, 1, PUBKEY_BYTES) = as_ref(mint)

\* the answer is at most limit items of the mint, by descending balance;
\* it leaves out no token account of the mint richer than one it returns,
\* and none at all when it is shorter than limit
TopOfMint(body, mint, limit) ==
    /\ Len(body) <= limit
    /\ \A i \in 1..Len(body) : ItemHasMint(body[i], mint)
    /\ \A i, j \in 1..Len(body) : i < j => body[i].lamports >= body[j].lamports
    /\ \A k \in Keys :
        (/\ Written(k) # None
         /\ Unwrap(Written(k)).owner = TOKEN_PROGRAM
         /\ HasMint(Unwrap(Written(k)), mint)
         /\ \A i \in 1..Len(body) : body[i].pubkey # to_string(k)) =>
            /\ Len(body) = limit
            /\ \A i \in 1..Len(body) : body[i].lamports >= Unwrap(Written(k)).lamports

\* C10: getLargestTokenAccounts(mint, limit) returns at most limit records,
\* all owned by the token program and all with the mint in their first 32
\* bytes, by descending balance, and omits no richer matching record.
C10_TopBySecondary ==
    (ret.op = "getLargestTokenAccounts" /\ ret.outcome = "Ok") =>
        /\ TopOfMint(ret.body, KeyOfText(ret.req.mint),
                     IF ret.req.limit = None THEN 10 ELSE Unwrap(ret.req.limit))
        /\ \A i \in 1..Len(ret.body) : ret.body[i].owner = to_string(TOKEN_PROGRAM)

\* what of C10 the index does keep: everything but the owner of the records
C10_ButOwner ==
    (ret.op = "getLargestTokenAccounts" /\ ret.outcome = "Ok") =>
        TopOfMint(ret.body, KeyOfText(ret.req.mint),
                  IF ret.req.limit = None THEN 10 ELSE Unwrap(ret.req.limit))

====
